---- MODULE Spec2Model ----
(***************************************************************************)
(* Model of the navigation engine (src/src/nav.rs), of the tower-defense   *)
(* scheduler (src/src/tower_defense.rs), of the input device               *)
(* (src/src/human.rs, src/src/lib.rs) and of the top-level loop            *)
(* (src/src/main.rs).                                                      *)
(*                                                                         *)
(*   SpecPath      find_path as a step machine, over bounded scene graphs  *)
(*   SpecMatch     get_match_score over bounded anchor tables and screens  *)
(*   SpecIdentify  identify_current_scene over hints, orders and scores    *)
(*   SpecNav       navigate: identify, plan, click, confirm / hand over    *)
(*   SpecWave      validate_wave_transition under a real-time clock        *)
(*   SpecCamera    smart_move_camera called again with the same target     *)
(*   SpecPhase     execute_wave_phase over bounded strategies              *)
(*   SpecScenario  the detections 1, 2, 2, 3 under varying gaps            *)
(*   SpecOcr       recognize_wave_status over bounded OCR texts            *)
(*   SpecRun       the monitoring loop of run                              *)
(*   SpecReadWave  SpecRun together with SpecOcr                           *)
(*   SpecDevice    the device mutex, the keep-alive thread and the inputs  *)
(*   SpecMain      the loop of main                                        *)
(*   SpecWaits     the waits of navigate and of run                        *)
(*   SpecRuns      level runs one after another, each on a new scheduler   *)
(*   SpecLocks     the HumanDriver mutex and the device mutex              *)
(*   SpecView      setup_view, edge alignments and smart_move_camera       *)
(*   SpecKeycode   get_hid_code against char_to_keycode                    *)
(*   SpecMouse     InputDevice::mouse_move as a step machine               *)
(***************************************************************************)
EXTENDS Integers, Sequences, FiniteSets, TLC

VARIABLES
    scenes,     \* NavEngine.scenes: scene id -> Scene (immutable after load)
    fp,         \* locals of find_path: pc, start, target, queue, came_from, visited, p, path, ret
    ms,         \* one get_match_score call: target_id, checks (anchor outcomes), ret
    nav,        \* one navigate or identify call: pc, target_id, start_id, path, i, ret and what it sent
    app,        \* TowerDefenseApp: last_confirmed_wave, last_wave_change_time, the monitor's position;
                \* in SpecKeycode and SpecMouse the locals of the function called
    now,        \* the monotonic clock (Instant::now()), in ms
    dev,        \* the shared input device: its mutex, the frame on the wire
    thr         \* the threads: the main pipeline and the keep-alive thread

vars == <<scenes, fp, ms, nav, app, now, dev, thr>>

(***************************************************************************)
(* Bounds of the model.                                                    *)
(***************************************************************************)
MaxEdges == 3       \* transitions in a scene graph given to find_path
MaxAnchors == 2     \* text anchors, and color anchors, of one scene
MaxCycles == 6      \* monitoring cycles of one level run
MaxDetect == 4      \* the largest wave number the OCR reads
MaxRowIndex == 440  \* target rows of the camera are 0, 5, ..., 5 * MaxRowIndex
MaxOffsetIndex == 92 \* offset estimates are 0, 10, ..., 10 * MaxOffsetIndex
MaxMoves == 3       \* consecutive smart_move_camera calls with one target
MaxTasks == 3       \* entries of a strategy: buildings, demolishes and upgrades
MaxNavigations == 3 \* calls of navigate that are counted
MaxClock == 70000   \* ms, where the clock of a level run stops counting
MaxTextLen == 4     \* characters of an OCR text given to recognize_wave_status
RunSpacing == 1000000 \* ms from the start of one level run to the start of the next

SceneIds == {"A", "B", "C"}         \* declared scenes
Targets == SceneIds \cup {"X"}      \* "X": an id no scene declares

None == [some |-> FALSE]
Some(v) == [some |-> TRUE, val |-> v]

(***************************************************************************)
(* Scene records (nav.rs 34-69).  anchors is None (no [anchors] table) or  *)
(* Some([text |-> n, color |-> m]): the number of text and color anchors   *)
(* (an absent list and an empty list both run the loop zero times).        *)
(***************************************************************************)
default_delay == 500
LongDelay == 2400

SceneNum(s) == CASE s = "A" -> 1 [] s = "B" -> 2 [] s = "C" -> 3 [] OTHER -> 4

\* The k-th transition declared by scene src, to target t.  The first
\* transition of a scene leaves post_delay to its default, a later one sets
\* LongDelay, a delay above the 2000 ms floor of the confirmation wait.
Transition(src, k, t) ==
    [target |-> t,
     coords |-> <<10 * SceneNum(src), 20 * k>>,
     post_delay |-> IF k = 1 THEN default_delay ELSE LongDelay]

Scene(logic, anchors, targets) ==
    [logic |-> logic, anchors |-> anchors, transitions |-> targets]

RECURSIVE TransitionsOf(_, _, _)
\* The transitions scene src declares, given the edge list es of the file.
TransitionsOf(src, es, acc) ==
    IF es = <<>> THEN acc
    ELSE IF Head(es)[1] = src
         THEN TransitionsOf(src, Tail(es),
                            Append(acc, Transition(src, Len(acc) + 1, Head(es)[2])))
         ELSE TransitionsOf(src, Tail(es), acc)

EdgeLists(n) == UNION {[1..k -> SceneIds \X Targets] : k \in 0..n}

(***************************************************************************)
(* Reference notions on the transition graph, computed by set expansion.   *)
(***************************************************************************)
Succ(G, x) ==
    IF x \in DOMAIN G
    THEN {G[x].transitions[k].target : k \in 1..Len(G[x].transitions)}
    ELSE {}

RECURSIVE Within(_, _, _)
\* The ids reachable from s by at most n transitions.
Within(G, s, n) ==
    IF n = 0 THEN {s}
    ELSE LET W == Within(G, s, n - 1)
         IN W \cup UNION {Succ(G, x) : x \in W}

Reachable(G, s, t) == t \in Within(G, s, Cardinality(Targets))

Dist(G, s, t) == CHOOSE n \in 0..Cardinality(Targets) :
                    /\ t \in Within(G, s, n)
                    /\ \A m \in 0..(n - 1) : t \notin Within(G, s, m)

(***************************************************************************)
(* find_path (nav.rs 351-377): breadth-first search, then the backward     *)
(* walk through came_from.                                                 *)
(***************************************************************************)
FpIdle ==
    [pc |-> "idle", start |-> "", target |-> "", queue |-> <<>>,
     came_from |-> [x \in {} |-> None], visited |-> <<>>,
     p |-> "", path |-> <<>>, ret |-> None]

FpCall(start, target) == [FpIdle EXCEPT !.pc = "call", !.start = start, !.target = target]

Contains(seq, x) == \E k \in 1..Len(seq) : seq[k] = x

Insert(m, k, v) == [x \in DOMAIN m \cup {k} |-> IF x = k THEN v ELSE m[x]]

RECURSIVE Reverse(_)
Reverse(seq) == IF seq = <<>> THEN <<>> ELSE Append(Reverse(Tail(seq)), Head(seq))

\* A variant of Discover that records came_from for every transition seen,
\* also one whose target was visited before.
DiscoverAlways(f, curr, t) ==
    LET g == IF ~Contains(f.visited, t.target)
             THEN [f EXCEPT !.visited = Append(@, t.target),
                            !.queue = Append(@, t.target)]
             ELSE f
    IN [g EXCEPT !.came_from = Insert(@, t.target, [prev |-> curr, trans |-> t])]

\* The body of `for t in trans` (369-371).
Discover(f, curr, t) ==
    IF ~Contains(f.visited, t.target)
    THEN [f EXCEPT !.visited = Append(@, t.target),
                   !.queue = Append(@, t.target),
                   !.came_from = Insert(@, t.target, [prev |-> curr, trans |-> t])]
    ELSE f

RECURSIVE Expand(_, _, _)
\* `for t in trans` over the transitions of curr, in declaration order (368-372).
Expand(f, curr, trans) ==
    IF trans = <<>> THEN f
    ELSE Expand(Discover(f, curr, Head(trans)), curr, Tail(trans))

\* lines 352-355: the early return and the initial queue, visited list and map.
FindPathEnter(f) ==
    IF f.start = f.target
    THEN [f EXCEPT !.pc = "done", !.ret = Some(<<>>)]
    ELSE [f EXCEPT !.pc = "bfs", !.queue = <<f.start>>, !.visited = <<f.start>>]

\* A variant of FindPathIter that tests curr == target only for declared scenes.
FindPathIterDeclared(G, f) ==
    IF f.queue = <<>>
    THEN [f EXCEPT !.pc = "done", !.ret = None]
    ELSE LET curr == Head(f.queue)
             g == [f EXCEPT !.queue = Tail(@)]
         IN IF curr \in DOMAIN G
            THEN IF curr = f.target
                 THEN [g EXCEPT !.pc = "walk", !.path = <<>>, !.p = f.target]
                 ELSE Expand(g, curr, G[curr].transitions)
            ELSE g

\* One iteration of `while let Some(curr) = queue.pop_front()` (357-375), or
\* the `None` of line 376 when the queue is empty.
FindPathIter(G, f) ==
    IF f.queue = <<>>
    THEN [f EXCEPT !.pc = "done", !.ret = None]
    ELSE LET curr == Head(f.queue)
             g == [f EXCEPT !.queue = Tail(@)]
         IN IF curr = f.target
            THEN [g EXCEPT !.pc = "walk", !.path = <<>>, !.p = f.target]
            ELSE IF curr \in DOMAIN G
                 THEN Expand(g, curr, G[curr].transitions)
                 ELSE g

\* A variant of FindPathBack that returns the path as the walk collected
\* it, from the target back to the start.
FindPathBackUnreversed(f) ==
    IF f.p # f.start
    THEN IF f.p \in DOMAIN f.came_from
         THEN [f EXCEPT !.path = Append(@, f.came_from[f.p].trans),
                        !.p = f.came_from[f.p].prev]
         ELSE f
    ELSE [f EXCEPT !.pc = "done", !.ret = Some(f.path)]

\* One iteration of `while p != start` (361-363), or the reverse and return
\* of line 364 when p == start.  A p that came_from does not hold leaves
\* every local unchanged: the loop spins.
FindPathBack(f) ==
    IF f.p # f.start
    THEN IF f.p \in DOMAIN f.came_from
         THEN [f EXCEPT !.path = Append(@, f.came_from[f.p].trans),
                        !.p = f.came_from[f.p].prev]
         ELSE f
    ELSE [f EXCEPT !.pc = "done", !.ret = Some(Reverse(f.path))]

FindPathCall ==
    /\ fp.pc = "call"
    /\ fp' = FindPathEnter(fp)
    /\ UNCHANGED <<scenes, ms, nav, app, now, dev, thr>>

FindPathLoop ==
    /\ fp.pc = "bfs"
    /\ fp' = FindPathIter(scenes, fp)
    /\ UNCHANGED <<scenes, ms, nav, app, now, dev, thr>>

FindPathWalk ==
    /\ fp.pc = "walk"
    /\ fp' = FindPathBack(fp)
    /\ UNCHANGED <<scenes, ms, nav, app, now, dev, thr>>

(***************************************************************************)
(* Idle values of the components a specification does not exercise.        *)
(***************************************************************************)
MsIdle == [pc |-> "idle", target_id |-> "", checks |-> <<>>, ret |-> 0]
NoResult == [kind |-> "", id |-> ""]
NavIdle ==
    [pc |-> "idle", target_id |-> "", start_id |-> None,
     path |-> <<>>, i |-> 0, ret |-> NoResult, log |-> "", sent |-> <<>>,
     polls |-> 0, elapsed |-> 0, timeout |-> 0, slept |-> 0,
     confirmed |-> <<>>, scan |-> <<>>, scored |-> <<>>, found |-> None]
NavOff == [NavIdle EXCEPT !.pc = "off"]
AppNew ==
    [pc |-> "monitor", last_confirmed_wave |-> 0, last_wave_change_time |-> 0,
     cycles |-> 0, detected_wave |-> 0, ret |-> FALSE, prev_wave |-> 0, prev_time |-> 0,
     map_meta |-> None, strategy_buildings |-> <<>>, strategy_upgrades |-> <<>>,
     strategy_demolishes |-> <<>>, placed_uids |-> {}, completed_upgrade_keys |-> {},
     completed_demolish_uids |-> {}, trap_lookup |-> {}, active_loadout |-> <<>>,
     camera_offset_y |-> 0, driver_ok |-> TRUE, panicked |-> FALSE,
     calls |-> <<>>, regions |-> <<>>, batches |-> <<>>, no_wave_count |-> 0,
     target_map_y |-> 0, moved |-> <<>>, before |-> <<>>, args |-> <<>>,
     repeated |-> FALSE, verdicts |-> <<>>, status |-> None, text |-> <<>>,
     phases |-> <<>>, executed |-> {}]
AppOff == [AppNew EXCEPT !.pc = "off"]
DevIdle == [holder |-> "none"]
ThrOff == [main |-> "off", hb |-> "off"]

\* The scene table of a file whose scenes declare the transitions es, every
\* scene s with the anchor table anchors[s] and the logic word logic[s].
SceneTable(es, logic, anchors) ==
    [s \in SceneIds |-> Scene(logic[s], anchors[s], TransitionsOf(s, es, <<>>))]

OneTextAnchor == [s \in SceneIds |-> Some([text |-> 1, color |-> 0])]
AndLogic == [s \in SceneIds |-> <<"a", "n", "d">>]

(***************************************************************************)
(* SpecPath: find_path on every scene graph of at most MaxEdges            *)
(* transitions, from every declared scene to every id.                     *)
(***************************************************************************)
InitPath ==
    /\ \E es \in EdgeLists(MaxEdges) : scenes = SceneTable(es, AndLogic, OneTextAnchor)
    /\ \E s \in SceneIds, t \in Targets : fp = FpCall(s, t)
    /\ ms = MsIdle
    /\ nav = NavOff
    /\ app = AppOff
    /\ now = 0
    /\ dev = DevIdle
    /\ thr = ThrOff

NextPath == FindPathCall \/ FindPathLoop \/ FindPathWalk

SpecPath == InitPath /\ [][NextPath]_vars

\* find_path runs whenever it has a step to take.
FairSpecPath == SpecPath /\ WF_vars(NextPath)

\* C1: when target is reachable from start, find_path returns a path whose
\* number of transitions is the least number of transitions from start to target.
C1_ShortestPath ==
    (fp.pc = "done" /\ Reachable(scenes, fp.start, fp.target))
        => /\ fp.ret.some
           /\ Len(fp.ret.val) = Dist(scenes, fp.start, fp.target)

\* A returned two-transition path in a graph of three transitions.
C1_Witness ==
    /\ fp.pc = "done" /\ fp.ret.some /\ Len(fp.ret.val) = 2
    /\ \E x \in SceneIds : Len(scenes[x].transitions) = 2

\* C2: find_path ends on every graph; it returns none exactly when target is
\* not reachable from start, and the empty path when start = target.
C2_NoneIffUnreachable ==
    /\ <>(fp.pc = "done")
    /\ [](fp.pc = "done" =>
            /\ (~fp.ret.some) <=> ~Reachable(scenes, fp.start, fp.target)
            /\ (fp.start = fp.target) => fp.ret = Some(<<>>))

\* A search over a graph with a self-loop and a cycle that ended with none.
C2_Witness ==
    /\ fp.pc = "done" /\ ~fp.ret.some
    /\ \E x \in SceneIds : x \in Succ(scenes, x)
    /\ \E x, y \in SceneIds : x # y /\ y \in Succ(scenes, x) /\ x \in Succ(scenes, y)

\* the scene a path stands in before its k-th transition
SourceOf(start, path, k) == IF k = 1 THEN start ELSE path[k - 1].target

\* transition t is one of those scene x declares
DeclaredBy(G, x, t) ==
    x \in DOMAIN G /\ \E j \in 1..Len(G[x].transitions) : G[x].transitions[j] = t

\* C35: a path find_path returns is a connected chain: its first transition
\* is declared by the start scene, each later one by the scene the previous
\* one targets, the last one targets the target, and no scene is entered
\* twice (nor is the start scene entered again).
C35_PathIsConnectedChain ==
    (fp.pc = "done" /\ fp.ret.some) =>
        LET path == fp.ret.val
            n == Len(path)
        IN /\ \A k \in 1..n : DeclaredBy(scenes, SourceOf(fp.start, path, k), path[k])
           /\ n > 0 => path[n].target = fp.target
           /\ n = 0 => fp.start = fp.target
           /\ \A j, k \in 1..n : j # k => path[j].target # path[k].target
           /\ \A k \in 1..n : path[k].target # fp.start

\* A returned path of two transitions through a graph in which the second
\* scene also leads back to the start.
C35_Witness ==
    /\ fp.pc = "done" /\ fp.ret.some /\ Len(fp.ret.val) = 2
    /\ fp.start \in Succ(scenes, fp.ret.val[1].target)

(***************************************************************************)
(* get_match_score (nav.rs 224-257).  A logic word is a sequence of        *)
(* characters; checks are the outcomes of the scene's anchor checks on the *)
(* live screen, the text anchors first, then the color anchors.            *)
(***************************************************************************)
LogicWords ==
    {<<>>, <<"a", "n", "d">>, <<"A", "N", "D">>, <<"o", "r">>, <<"O", "R">>,
     <<"O", "r">>, <<"x", "o", "r">>}

\* char::to_lowercase on the letters of LogicWords.
LowerChar(c) ==
    CASE c = "A" -> "a" [] c = "N" -> "n" [] c = "D" -> "d"
      [] c = "O" -> "o" [] c = "R" -> "r" [] OTHER -> c

\* A variant of ToLower that leaves the word as written.
ToLowerNot(w) == w

\* scene.logic.to_lowercase() (249).
ToLower(w) == [k \in 1..Len(w) |-> LowerChar(w[k])]

\* The anchor checks a call on scene record sc performs (232-247).
NumChecks(sc) == IF sc.anchors.some THEN sc.anchors.val.text + sc.anchors.val.color ELSE 0

RECURSIVE CountPassed(_, _, _)
\* `for` over the anchors lo..hi: score += 1 for each check that passes.
CountPassed(checks, lo, hi) ==
    IF lo > hi THEN 0
    ELSE (IF checks[lo] THEN 1 ELSE 0) + CountPassed(checks, lo + 1, hi)

GetMatchScore(G, target_id, checks) ==
    IF target_id \in DOMAIN G
    THEN LET scene == G[target_id]
         IN IF ~scene.anchors.some THEN 0
            ELSE LET nt == scene.anchors.val.text
                     nc == scene.anchors.val.color
                     score == CountPassed(checks, 1, nt) + CountPassed(checks, nt + 1, nt + nc)
                     total_checks == nt + nc
                     passed == IF ToLower(scene.logic) = <<"o", "r">>
                               THEN score > 0
                               ELSE score = total_checks /\ total_checks > 0
                 IN IF passed THEN score ELSE 0
    ELSE 0

\* What the screen can answer to the checks of one call on target_id.
Screens(G, target_id) ==
    IF target_id \in DOMAIN G THEN [1..NumChecks(G[target_id]) -> BOOLEAN] ELSE {<<>>}

\* One call of get_match_score: the checks read the screen, the score returns.
MatchScoreCall ==
    /\ ms.pc = "call"
    /\ \E checks \in Screens(scenes, ms.target_id) :
          ms' = [ms EXCEPT !.pc = "done", !.checks = checks,
                           !.ret = GetMatchScore(scenes, ms.target_id, checks)]
    /\ UNCHANGED <<scenes, fp, nav, app, now, dev, thr>>

\* The caller takes the score; the next call may follow.
MatchScoreReturn ==
    /\ ms.pc = "done"
    /\ \E id \in Targets : ms' = [MsIdle EXCEPT !.pc = "call", !.target_id = id]
    /\ UNCHANGED <<scenes, fp, nav, app, now, dev, thr>>

AnchorTables ==
    {None} \cup {Some([text |-> nt, color |-> nc]) : nt \in 0..MaxAnchors, nc \in 0..MaxAnchors}

(***************************************************************************)
(* SpecMatch: get_match_score on every logic word and anchor table, under  *)
(* every outcome of the anchor checks.                                     *)
(***************************************************************************)
InitMatch ==
    /\ \E w \in LogicWords, a \in AnchorTables :
          scenes = [s \in SceneIds |-> Scene(w, a, <<>>)]
    /\ \E id \in Targets : ms = [MsIdle EXCEPT !.pc = "call", !.target_id = id]
    /\ fp = FpIdle
    /\ nav = NavOff
    /\ app = AppOff
    /\ now = 0
    /\ dev = DevIdle
    /\ thr = ThrOff

NextMatch == MatchScoreCall \/ MatchScoreReturn

SpecMatch == InitMatch /\ [][NextMatch]_vars

AndWords == {<<"a", "n", "d">>, <<"A", "N", "D">>}
OrWords == {<<"o", "r">>, <<"O", "R">>, <<"O", "r">>}

\* C3: a scene with k anchors scores > 0 under AND logic iff k > 0 and all k
\* checks pass, under OR logic iff at least one check passes, and never when
\* k = 0, be the anchor table absent or empty.
C3_MatchedIff ==
    (ms.pc = "done" /\ ms.target_id \in DOMAIN scenes) =>
        LET sc == scenes[ms.target_id]
            k == NumChecks(sc)
            matched == ms.ret > 0
        IN /\ Len(ms.checks) = k
           /\ k = 0 => ~matched
           /\ sc.logic \in AndWords =>
                 (matched <=> (k > 0 /\ \A i \in 1..k : ms.checks[i]))
           /\ sc.logic \in OrWords =>
                 (matched <=> \E i \in 1..k : ms.checks[i])

\* An upper-case OR scene matched with one check passed and one failed.
C3_Witness ==
    /\ ms.pc = "done" /\ ms.target_id \in DOMAIN scenes
    /\ scenes[ms.target_id].logic = <<"O", "R">>
    /\ ms.ret > 0
    /\ \E i, j \in 1..Len(ms.checks) : ms.checks[i] /\ ~ms.checks[j]

(***************************************************************************)
(* identify_current_scene (nav.rs 259-289).  order is the iteration order  *)
(* of the scene HashMap, sc[s] the score get_match_score returns for scene *)
(* s when the scan calls it.                                               *)
(***************************************************************************)
Perms(S) == {f \in [1..Cardinality(S) -> S] : \A x \in S : \E k \in DOMAIN f : f[k] = x}

\* The scores one get_match_score call on id can return, over what the
\* screen can show.
PossibleScores(G, id) == {GetMatchScore(G, id, checks) : checks \in Screens(G, id)}

\* What the calls of one scan can return: a score for every declared scene.
Scorings(G) ==
    LET ps == [s \in DOMAIN G |-> PossibleScores(G, s)]
    IN {sc \in [DOMAIN G -> 0..(2 * MaxAnchors)] : \A s \in DOMAIN G : sc[s] \in ps[s]}

RECURSIVE ScanScenesLastWins(_, _, _, _)
\* A variant of ScanScenes in which a scene also replaces the best match
\* when it has the same score.
ScanScenesLastWins(hint, order, sc, best) ==
    IF order = <<>> THEN best
    ELSE LET id == Head(order)
             score == sc[id]
         IN IF hint.some /\ hint.val = id
            THEN ScanScenesLastWins(hint, Tail(order), sc, best)
            ELSE IF score > 0 /\ score >= best[2]
                 THEN ScanScenesLastWins(hint, Tail(order), sc, <<Some(id), score>>)
                 ELSE ScanScenesLastWins(hint, Tail(order), sc, best)

RECURSIVE ScanScenes(_, _, _, _)
\* `for (id, _) in &self.scenes` (272-282): best is <<best_match, max_score>>.
ScanScenes(hint, order, sc, best) ==
    IF order = <<>> THEN best
    ELSE LET id == Head(order)
             score == sc[id]
         IN IF hint.some /\ hint.val = id
            THEN ScanScenes(hint, Tail(order), sc, best)
            ELSE IF score > 0 /\ score > best[2]
                 THEN ScanScenes(hint, Tail(order), sc, <<Some(id), score>>)
                 ELSE ScanScenes(hint, Tail(order), sc, best)

\* <<the scene returned, its score>>; a hint no scene declares scores 0 (256).
IdentifyCurrentScene(hint, order, sc) ==
    IF hint.some /\ (IF hint.val \in DOMAIN sc THEN sc[hint.val] ELSE 0) > 0
    THEN <<hint, sc[hint.val]>>
    ELSE ScanScenes(hint, order, sc, <<None, 0>>)

\* What one call can return, over the iteration orders of the HashMap and
\* what the screen can show.
IdentifyOutcomes(G, hint) ==
    {IdentifyCurrentScene(hint, order, sc) : order \in Perms(DOMAIN G), sc \in Scorings(G)}

\* The ids identify_current_scene calls get_match_score on, in order: the
\* hint (262), then, unless the hint scored above 0, every declared scene
\* but the hint (273-275).
ScoredScenes(hint, order, sc) ==
    LET first == IF hint.some THEN <<hint.val>> ELSE <<>>
        NotHint(id) == ~(hint.some /\ hint.val = id)
    IN IF hint.some /\ (IF hint.val \in DOMAIN sc THEN sc[hint.val] ELSE 0) > 0
       THEN first
       ELSE first \o SelectSeq(order, NotHint)

(***************************************************************************)
(* SpecIdentify: identify_current_scene called once, with every hint,      *)
(* every iteration order of the three declared scenes and every score of   *)
(* 0..2 * MaxAnchors for each of them.  nav.scan is <<hint, order, sc>>.   *)
(***************************************************************************)
IdentifyCall ==
    /\ nav.pc = "identify"
    /\ nav' = [nav EXCEPT !.pc = "identified",
                          !.found = IdentifyCurrentScene(nav.scan[1], nav.scan[2],
                                                         nav.scan[3])[1],
                          !.scored = ScoredScenes(nav.scan[1], nav.scan[2], nav.scan[3])]
    /\ UNCHANGED <<scenes, fp, ms, app, now, dev, thr>>

InitIdentify ==
    /\ scenes = SceneTable(<<>>, AndLogic, OneTextAnchor)
    /\ fp = FpIdle
    /\ ms = MsIdle
    /\ \E hint \in {None} \cup {Some(t) : t \in Targets}, order \in Perms(SceneIds),
          sc \in [SceneIds -> 0..(2 * MaxAnchors)] :
          nav = [NavIdle EXCEPT !.pc = "identify", !.scan = <<hint, order, sc>>]
    /\ app = AppOff
    /\ now = 0
    /\ dev = DevIdle
    /\ thr = ThrOff

NextIdentify == IdentifyCall

SpecIdentify == InitIdentify /\ [][NextIdentify]_vars

\* The place of scene id in the iteration order.
PlaceOf(order, id) == CHOOSE k \in 1..Len(order) : order[k] = id

\* found is what a scan of every declared scene returns: none iff every
\* scene scores 0, else a scene of the highest score, the first of them in
\* the iteration order.
FullScanResult(found, order, sc) ==
    /\ ~found.some <=> \A s \in SceneIds : sc[s] = 0
    /\ found.some =>
          /\ found.val \in SceneIds
          /\ sc[found.val] > 0
          /\ \A s \in SceneIds : sc[s] <= sc[found.val]
          /\ \A s \in SceneIds :
                sc[s] = sc[found.val] => PlaceOf(order, found.val) <= PlaceOf(order, s)

\* C23: without a hint identify_current_scene scores every declared scene
\* and returns the result of the full scan; with a hint that scores above 0
\* it returns the hint and scores no other scene; with a hint that scores 0
\* it returns the result of the full scan.
C23_IdentifyCurrentScene ==
    nav.pc = "identified" =>
        LET hint == nav.scan[1]
            order == nav.scan[2]
            sc == nav.scan[3]
            hint_score == IF hint.some /\ hint.val \in SceneIds THEN sc[hint.val] ELSE 0
        IN /\ ~hint.some =>
                 /\ {nav.scored[k] : k \in 1..Len(nav.scored)} = SceneIds
                 /\ Len(nav.scored) = Cardinality(SceneIds)
                 /\ FullScanResult(nav.found, order, sc)
           /\ (hint.some /\ hint_score > 0) =>
                 /\ nav.found = hint
                 /\ nav.scored = <<hint.val>>
           /\ (hint.some /\ hint_score = 0) => FullScanResult(nav.found, order, sc)

\* A scan without a hint in which the second and the third scene of the
\* iteration order share the highest score, and the second was returned.
C23_Witness ==
    /\ nav.pc = "identified" /\ ~nav.scan[1].some
    /\ nav.scan[3][nav.scan[2][1]] = 1
    /\ nav.scan[3][nav.scan[2][2]] = 2 /\ nav.scan[3][nav.scan[2][3]] = 2
    /\ nav.found = Some(nav.scan[2][2])

(***************************************************************************)
(* navigate (nav.rs 305-349) with wait_for_scene (291-303) and             *)
(* perform_click (191-196).                                                *)
(***************************************************************************)
Success == [kind |-> "Success", id |-> ""]
Failed == [kind |-> "Failed", id |-> ""]
Handover(id) == [kind |-> "Handover", id |-> id]

MinConfirmTimeout == 2000   \* ms, line 336
PollSleep == 200            \* ms, line 299
SettleSleep == 300          \* ms, line 344
OcrCosts == {0, 1000}       \* ms one get_match_score call may take

\* perform_click: the humanised move to (x, y), then the left click.
PerformClick(sent, coords) ==
    Append(Append(sent, [op |-> "move", x |-> coords[1], y |-> coords[2]]),
           [op |-> "click", x |-> coords[1], y |-> coords[2]])

\* A variant of NavigateEnter that takes the target for the start when no
\* scene is identified.
NavigateEnterBlind(n, target_id, found) ==
    LET m == [n EXCEPT !.target_id = target_id, !.start_id = found[1]]
    IN IF ~found[1].some \/ found[1].val = target_id
       THEN [m EXCEPT !.pc = "done", !.ret = Success, !.log = "at_target"]
       ELSE [m EXCEPT !.pc = "plan"]

\* A variant of NavigateEnter without the early return of lines 311-314.
NavigateEnterPlanAlways(n, target_id, found) ==
    LET m == [n EXCEPT !.target_id = target_id, !.start_id = found[1]]
    IN IF ~found[1].some
       THEN [m EXCEPT !.pc = "done", !.ret = Failed, !.log = "no_start"]
       ELSE [m EXCEPT !.pc = "plan"]

\* lines 306-314: found is what identify_current_scene(None) returned.
NavigateEnter(n, target_id, found) ==
    LET m == [n EXCEPT !.target_id = target_id, !.start_id = found[1]]
    IN IF ~found[1].some
       THEN [m EXCEPT !.pc = "done", !.ret = Failed, !.log = "no_start"]
       ELSE IF found[1].val = target_id
            THEN [m EXCEPT !.pc = "done", !.ret = Success, !.log = "at_target"]
            ELSE [m EXCEPT !.pc = "plan"]

\* A variant of NavigatePlanned that takes no path for the empty path.
NavigatePlannedOrEmpty(n, found) ==
    IF ~found.some
    THEN [n EXCEPT !.pc = "exec", !.path = <<>>, !.i = 1]
    ELSE [n EXCEPT !.pc = "exec", !.path = found.val, !.i = 1]

\* lines 317-320: what find_path returned.
NavigatePlanned(n, found) ==
    IF ~found.some
    THEN [n EXCEPT !.pc = "done", !.ret = Failed, !.log = "no_path"]
    ELSE [n EXCEPT !.pc = "exec", !.path = found.val, !.i = 1]

IsVirtual(G, id) == IF id \in DOMAIN G THEN ~G[id].anchors.some ELSE FALSE

\* A variant of ConfirmTimeout that ignores post_delay.
ConfirmTimeoutFixed(post_delay) == MinConfirmTimeout

\* line 336.
ConfirmTimeout(post_delay) ==
    IF post_delay < MinConfirmTimeout THEN MinConfirmTimeout ELSE post_delay

\* lines 322-336, or 347-348 when the path is consumed: the click of step i,
\* then the handover or the start of the confirmation wait.
NavigateStep(G, n) ==
    IF n.i > Len(n.path)
    THEN [n EXCEPT !.pc = "done", !.ret = Success, !.log = "arrived"]
    ELSE LET step == n.path[n.i]
             m == [n EXCEPT !.sent = PerformClick(@, step.coords), !.polls = 0,
                            !.elapsed = 0]
         IN IF IsVirtual(G, step.target)
            THEN [m EXCEPT !.pc = "done", !.slept = step.post_delay,
                           !.ret = Handover(step.target), !.log = "handover"]
            ELSE [m EXCEPT !.pc = "wait",
                           !.timeout = ConfirmTimeout(step.post_delay)]

\* A variant of WaitForScenePoll that takes any score for a match.
WaitForScenePollAny(n, score, cost) ==
    LET m == [n EXCEPT !.polls = @ + 1]
    IN IF score >= 0
       THEN [m EXCEPT !.pc = "exec", !.confirmed = Append(@, n.path[n.i].target),
                      !.i = @ + 1, !.polls = 0, !.elapsed = 0, !.timeout = 0,
                      !.slept = SettleSleep]
       ELSE [m EXCEPT !.elapsed = @ + cost + PollSleep, !.slept = PollSleep]

\* One iteration of the loop of wait_for_scene (294-300), entered with
\* elapsed < timeout: the poll of the target scene that took cost ms and
\* scored score; on a match lines 296-297 and 344, where the locals of
\* wait_for_scene and the count of its polls are dropped.
WaitForScenePoll(n, score, cost) ==
    LET m == [n EXCEPT !.polls = @ + 1]
    IN IF score > 0
       THEN [m EXCEPT !.pc = "exec", !.confirmed = Append(@, n.path[n.i].target),
                      !.i = @ + 1, !.polls = 0, !.elapsed = 0, !.timeout = 0,
                      !.slept = SettleSleep]
       ELSE [m EXCEPT !.elapsed = @ + cost + PollSleep, !.slept = PollSleep]

\* A variant of WaitForSceneTimeout that clicks the transition once more
\* before it gives up.
WaitForSceneTimeoutRetry(n) ==
    [n EXCEPT !.pc = "done", !.ret = Failed, !.log = "timeout",
              !.sent = PerformClick(@, n.path[n.i].coords)]

\* lines 301-302 and 338-342: the wait is over.  The diagnostic
\* identify_current_scene(None) of line 339 only prints what it finds.
WaitForSceneTimeout(n) ==
    [n EXCEPT !.pc = "done", !.ret = Failed, !.log = "timeout"]

Navigate ==
    /\ nav.pc = "idle"
    /\ \E found \in IdentifyOutcomes(scenes, None), target_id \in Targets :
          LET n == NavigateEnter(nav, target_id, found)
          IN /\ nav' = n
             /\ fp' = IF n.pc = "plan" THEN FpCall(found[1].val, target_id) ELSE fp
    /\ UNCHANGED <<scenes, ms, app, now, dev, thr>>

NavPlanned ==
    /\ nav.pc = "plan"
    /\ fp.pc = "done"
    /\ nav' = NavigatePlanned(nav, fp.ret)
    /\ UNCHANGED <<scenes, fp, ms, app, now, dev, thr>>

NavStep ==
    /\ nav.pc = "exec"
    /\ nav' = NavigateStep(scenes, nav)
    /\ UNCHANGED <<scenes, fp, ms, app, now, dev, thr>>

NavPoll ==
    /\ nav.pc = "wait"
    /\ nav.elapsed < nav.timeout
    /\ \E score \in PossibleScores(scenes, nav.path[nav.i].target), cost \in OcrCosts :
          nav' = WaitForScenePoll(nav, score, cost)
    /\ UNCHANGED <<scenes, fp, ms, app, now, dev, thr>>

NavTimeout ==
    /\ nav.pc = "wait"
    /\ ~(nav.elapsed < nav.timeout)
    /\ nav' = WaitForSceneTimeout(nav)
    /\ UNCHANGED <<scenes, fp, ms, app, now, dev, thr>>

\* navigate has returned; the top-level loop will call it again (main.rs 91-160).
NavReturn ==
    /\ nav.pc = "done"
    /\ nav' = NavIdle
    /\ fp' = FpIdle
    /\ UNCHANGED <<scenes, ms, app, now, dev, thr>>

(***************************************************************************)
(* SpecNav: navigate on every scene table of at most NavMaxEdges           *)
(* transitions whose scenes are virtual, anchorless with an empty table,   *)
(* AND scenes of one anchor or OR scenes of two.                           *)
(***************************************************************************)
NavMaxEdges == 2

Virtual == [logic |-> <<"a", "n", "d">>, anchors |-> None]
EmptyTable == [logic |-> <<"a", "n", "d">>, anchors |-> Some([text |-> 0, color |-> 0])]
AndOne == [logic |-> <<"a", "n", "d">>, anchors |-> Some([text |-> 1, color |-> 0])]
OrTwo == [logic |-> <<"O", "R">>, anchors |-> Some([text |-> 1, color |-> 1])]

\* The kinds each scene is drawn from.
SceneKinds(s) ==
    CASE s = "A" -> {AndOne, OrTwo}
      [] s = "B" -> {Virtual, EmptyTable, AndOne, OrTwo}
      [] OTHER -> {Virtual, AndOne}

InitNav ==
    /\ \E es \in EdgeLists(NavMaxEdges),
          kind \in {k \in [SceneIds -> {Virtual, EmptyTable, AndOne, OrTwo}] :
                       \A s \in SceneIds : k[s] \in SceneKinds(s)} :
          scenes = SceneTable(es, [s \in SceneIds |-> kind[s].logic],
                                  [s \in SceneIds |-> kind[s].anchors])
    /\ nav = NavIdle
    /\ fp = FpIdle
    /\ ms = MsIdle
    /\ app = AppOff
    /\ now = 0
    /\ dev = DevIdle
    /\ thr = ThrOff

NextNav ==
    \/ Navigate
    \/ FindPathCall \/ FindPathLoop \/ FindPathWalk
    \/ NavPlanned
    \/ NavStep
    \/ NavPoll
    \/ NavTimeout
    \/ NavReturn

SpecNav == InitNav /\ [][NextNav]_vars

(***************************************************************************)
(* Claims on navigate.                                                     *)
(***************************************************************************)
\* The clicks navigate sent, as the coordinates clicked.
Clicks == SelectSeq(nav.sent, LAMBDA e : e.op = "click")
ClickedCoords == [k \in 1..Len(Clicks) |-> <<Clicks[k].x, Clicks[k].y>>]
PathCoords(path, n) == [k \in 1..n |-> path[k].coords]
PathTargets(path, n) == [k \in 1..n |-> path[k].target]

\* A declared scene without a single anchor, its anchor table absent or empty.
Anchorless(G, id) == id \in DOMAIN G /\ NumChecks(G[id]) = 0

\* C4: when no declared scene matches the screen, navigate returns Failed and
\* has sent no move and no click, whatever the target.
C4_NoSceneFails ==
    (nav.pc # "idle" /\ ~nav.start_id.some) =>
        /\ nav.pc = "done"
        /\ nav.ret = Failed
        /\ nav.sent = <<>>

\* navigate("C") returned with no scene identified although A declares a
\* transition to C.
C4_Witness ==
    /\ nav.pc = "done" /\ ~nav.start_id.some /\ nav.target_id = "C"
    /\ "C" \in Succ(scenes, "A")

\* C5: when the identified scene is the target, navigate returns Success at
\* once: find_path is not called, nothing is sent, no poll is issued.
C5_AtTargetSuccess ==
    (nav.start_id.some /\ nav.start_id.val = nav.target_id) =>
        /\ nav.pc = "done"
        /\ nav.ret = Success
        /\ fp = FpIdle
        /\ nav.sent = <<>>
        /\ nav.polls = 0
        /\ nav.slept = 0

\* navigate("A") returned on screen A, A declaring transitions.
C5_Witness ==
    /\ nav.pc = "done" /\ nav.start_id = Some("A") /\ nav.target_id = "A"
    /\ Len(scenes["A"].transitions) = 2

\* C6: once navigate has clicked a transition whose target scene has no
\* anchors, it has slept post_delay and returned Handover(target) with no
\* confirmation poll, and clicks no later transition.
C6_AnchorlessHandsOver ==
    LET j == Len(Clicks)
    IN (j >= 1 /\ Anchorless(scenes, nav.path[j].target)) =>
          /\ nav.pc = "done"
          /\ nav.ret = Handover(nav.path[j].target)
          /\ nav.polls = 0
          /\ nav.slept = nav.path[j].post_delay

\* The part of C6 the code keeps: a target scene without an anchor table.
C6_AbsentTableHandsOver ==
    LET j == Len(Clicks)
    IN (j >= 1 /\ IsVirtual(scenes, nav.path[j].target)) =>
          /\ nav.pc = "done"
          /\ nav.ret = Handover(nav.path[j].target)
          /\ nav.polls = 0
          /\ nav.slept = nav.path[j].post_delay
          /\ ClickedCoords = PathCoords(nav.path, j)

\* C7: when the current scene is identified and the target is not reachable
\* from it, navigate returns Failed and has sent nothing.
C7_UnreachableFails ==
    (nav.pc = "done" /\ nav.start_id.some
        /\ ~Reachable(scenes, nav.start_id.val, nav.target_id)) =>
        /\ nav.ret = Failed
        /\ nav.sent = <<>>

\* navigate("C") failed from A, A and B declaring transitions that do not lead to C.
C7_Witness ==
    /\ nav.pc = "done" /\ nav.start_id = Some("A") /\ nav.target_id = "C"
    /\ nav.log = "no_path"
    /\ "B" \in Succ(scenes, "A") /\ "A" \in Succ(scenes, "B")

Max(a, b) == IF a >= b THEN a ELSE b

\* C8: the confirmation wait of a clicked transition polls only while less
\* than max(post_delay, 2000) ms have elapsed, sleeps 200 ms after every
\* poll that does not match, and so polls at most max(post_delay, 2000)/200
\* times; the wait ends in Failed only when the window is over, and after
\* that the call is over: nothing more is clicked.
C8_ConfirmWindow ==
    /\ [](nav.pc = "wait" =>
            /\ nav.timeout = Max(nav.path[nav.i].post_delay, 2000)
            /\ nav.polls * 200 <= nav.elapsed
            /\ (nav.polls - 1) * 200 < nav.timeout)
    /\ [](nav.log = "timeout" =>
            /\ nav.pc = "done" /\ nav.ret = Failed
            /\ nav.elapsed >= nav.timeout
            /\ (nav.polls - 1) * 200 < nav.timeout
            /\ ClickedCoords = PathCoords(nav.path, nav.i)
            /\ nav.confirmed = PathTargets(nav.path, nav.i - 1))
    /\ [][(nav.pc = "wait" /\ nav'.pc = "wait") =>
            /\ nav.elapsed < nav.timeout
            /\ nav'.polls = nav.polls + 1
            /\ nav'.elapsed >= nav.elapsed + 200]_vars
    /\ [][(nav.pc = "wait" /\ nav'.pc = "done") =>
            /\ nav.elapsed >= nav.timeout
            /\ nav'.log = "timeout"]_vars
    /\ [][nav.log = "timeout" => nav'.pc = "idle"]_vars

\* The wait of the first of two planned transitions timed out.
C8_Witness ==
    /\ nav.log = "timeout" /\ nav.i = 1 /\ Len(nav.path) = 2
    /\ nav.polls = 10

\* C9: Success is returned only for a target with anchors that was the
\* identified scene, or after every transition of the path was clicked and
\* confirmed in order, the last one confirming the target; Handover(s) is
\* returned only for a scene s without anchors.
C9_SuccessMeansObserved ==
    /\ (nav.ret = Success) =>
          /\ nav.pc = "done"
          /\ nav.target_id \in DOMAIN scenes
          /\ NumChecks(scenes[nav.target_id]) > 0
          /\ \/ /\ nav.start_id = Some(nav.target_id)
                /\ nav.sent = <<>>
             \/ /\ Len(nav.path) > 0
                /\ ClickedCoords = PathCoords(nav.path, Len(nav.path))
                /\ nav.confirmed = PathTargets(nav.path, Len(nav.path))
                /\ nav.confirmed[Len(nav.confirmed)] = nav.target_id
    /\ (nav.ret.kind = "Handover") =>
          /\ nav.pc = "done"
          /\ Anchorless(scenes, nav.ret.id)

\* Success after two transitions were clicked and confirmed.
C9_Witness ==
    /\ nav.ret = Success /\ Len(nav.path) = 2 /\ Len(nav.confirmed) = 2


\* C33: during one navigate call the clicks performed are the click
\* coordinates of a prefix of the planned path, in path order, one click per
\* transition; the confirmation wait and its timeout click nothing, and
\* after an outcome the call is over and nothing more is sent.
C33_ClicksArePathPrefix ==
    /\ [](nav.pc \in {"plan", "exec", "wait", "done"} =>
            /\ Len(Clicks) <= Len(nav.path)
            /\ ClickedCoords = PathCoords(nav.path, Len(Clicks))
            /\ Len(Clicks) \in {nav.i - 1, nav.i}
            /\ nav.ret.kind \in {"Failed", "Handover"} => nav.pc = "done")
    /\ [][nav.pc = "wait" => nav'.sent = nav.sent]_vars
    /\ [][nav.pc = "exec" =>
            Len(SelectSeq(nav'.sent, LAMBDA e : e.op = "click")) <= Len(Clicks) + 1]_vars
    /\ [][nav.pc = "done" => nav'.pc = "idle" /\ nav'.sent = <<>>]_vars

\* The wait of the second of two planned transitions timed out after both
\* were clicked once.
C33_Witness ==
    /\ nav.log = "timeout" /\ nav.ret = Failed /\ nav.i = 2 /\ Len(nav.path) = 2
    /\ Len(Clicks) = 2 /\ nav.confirmed = <<nav.path[1].target>>

(***************************************************************************)
(* validate_wave_transition (tower_defense.rs 300-316), called once per    *)
(* monitoring cycle that read a wave number (868-873); between two cycles  *)
(* time passes (924).  last_confirmed_wave is an i32 that grows by one per *)
(* acceptance and stays far below 2^31 - 1 here.                           *)
(***************************************************************************)
WaveCooldown == 60          \* seconds, line 304

\* Duration::as_secs: whole seconds of a duration in ms.
AsSecs(d) == d \div 1000

\* A variant of ValidateWaveTransition that also accepts the wave confirmed
\* last, once the cooldown is over.
ValidateWaveTransitionRepeat(a, detected_wave, t) ==
    LET elapsed == AsSecs(t - a.last_wave_change_time)
        is_next_wave == \/ detected_wave = a.last_confirmed_wave + 1
                        \/ detected_wave = a.last_confirmed_wave /\ detected_wave > 0
        is_long_enough == elapsed >= WaveCooldown \/ a.last_confirmed_wave = 0
    IN IF is_next_wave /\ is_long_enough
       THEN [a EXCEPT !.last_confirmed_wave = detected_wave,
                      !.last_wave_change_time = t, !.ret = TRUE]
       ELSE [a EXCEPT !.ret = FALSE]

\* A variant of ValidateWaveTransition whose cooldown test is strict.
ValidateWaveTransitionStrict(a, detected_wave, t) ==
    LET elapsed == AsSecs(t - a.last_wave_change_time)
        is_next_wave == detected_wave = a.last_confirmed_wave + 1
        is_long_enough == elapsed > WaveCooldown \/ a.last_confirmed_wave = 0
    IN IF is_next_wave /\ is_long_enough
       THEN [a EXCEPT !.last_confirmed_wave = detected_wave,
                      !.last_wave_change_time = t, !.ret = TRUE]
       ELSE [a EXCEPT !.ret = FALSE]

\* A variant of ValidateWaveTransition that takes any later wave for the
\* next wave.
ValidateWaveTransitionAnyLater(a, detected_wave, t) ==
    LET elapsed == AsSecs(t - a.last_wave_change_time)
        is_next_wave == detected_wave > a.last_confirmed_wave
        is_long_enough == elapsed >= WaveCooldown \/ a.last_confirmed_wave = 0
    IN IF is_next_wave /\ is_long_enough
       THEN [a EXCEPT !.last_confirmed_wave = detected_wave,
                      !.last_wave_change_time = t, !.ret = TRUE]
       ELSE [a EXCEPT !.ret = FALSE]

\* A variant of ValidateWaveTransition that restarts the cooldown at every
\* call.
ValidateWaveTransitionRestart(a, detected_wave, t) ==
    LET elapsed == AsSecs(t - a.last_wave_change_time)
        is_next_wave == detected_wave = a.last_confirmed_wave + 1
        is_long_enough == elapsed >= WaveCooldown \/ a.last_confirmed_wave = 0
    IN IF is_next_wave /\ is_long_enough
       THEN [a EXCEPT !.last_confirmed_wave = detected_wave,
                      !.last_wave_change_time = t, !.ret = TRUE]
       ELSE [a EXCEPT !.last_wave_change_time = t, !.ret = FALSE]

\* lines 300-316, called at time t.
ValidateWaveTransition(a, detected_wave, t) ==
    LET elapsed == AsSecs(t - a.last_wave_change_time)
        is_next_wave == detected_wave = a.last_confirmed_wave + 1
        is_long_enough == elapsed >= WaveCooldown \/ a.last_confirmed_wave = 0
    IN IF is_next_wave /\ is_long_enough
       THEN [a EXCEPT !.last_confirmed_wave = detected_wave,
                      !.last_wave_change_time = t, !.ret = TRUE]
       ELSE [a EXCEPT !.ret = FALSE]

\* A monitoring cycle read detected_wave and validates it (868-873);
\* prev_wave and prev_time keep what the call found.
WaveDetected ==
    /\ app.pc = "monitor"
    /\ app.cycles < MaxCycles
    /\ \E detected_wave \in 0..MaxDetect :
          app' = [ValidateWaveTransition(app, detected_wave, now) EXCEPT
                     !.pc = "validated", !.cycles = @ + 1,
                     !.detected_wave = detected_wave,
                     !.prev_wave = app.last_confirmed_wave,
                     !.prev_time = app.last_wave_change_time]
    /\ UNCHANGED <<scenes, fp, ms, nav, now, dev, thr>>

CycleTimes == {500, 59499, 59500}   \* ms from one validation to the next

\* The rest of the cycle and the sleep of line 924.
WaveSleep ==
    /\ app.pc = "validated"
    /\ \E d \in CycleTimes : now' = now + d
    /\ app' = [app EXCEPT !.pc = "monitor"]
    /\ UNCHANGED <<scenes, fp, ms, nav, dev, thr>>

(***************************************************************************)
(* SpecWave: the wave validation of one level run.                         *)
(***************************************************************************)
InitWave ==
    /\ scenes = SceneTable(<<>>, AndLogic, OneTextAnchor)
    /\ fp = FpIdle
    /\ ms = MsIdle
    /\ nav = NavOff
    /\ app = AppNew
    /\ now = 0
    /\ dev = DevIdle
    /\ thr = ThrOff

NextWave == WaveDetected \/ WaveSleep

SpecWave == InitWave /\ [][NextWave]_vars

\* C10: validate_transition(detected) returns true iff detected =
\* last_confirmed + 1 and (60 s or more have passed since the last confirmed
\* transition, or last_confirmed = 0); on acceptance last_confirmed becomes
\* detected and the confirmation time becomes now, otherwise both stay.
C10_ValidateIff ==
    app.pc = "validated" =>
        /\ app.ret <=> (/\ app.detected_wave = app.prev_wave + 1
                        /\ (now - app.prev_time >= 60000 \/ app.prev_wave = 0))
        /\ app.ret => (/\ app.last_confirmed_wave = app.detected_wave
                       /\ app.last_wave_change_time = now)
        /\ ~app.ret => (/\ app.last_confirmed_wave = app.prev_wave
                        /\ app.last_wave_change_time = app.prev_time)

\* Wave 3 accepted exactly 60 s after wave 2 was.
C10_Witness ==
    /\ app.pc = "validated" /\ app.ret
    /\ app.detected_wave = 3 /\ app.prev_wave = 2
    /\ now - app.prev_time = 60000

(***************************************************************************)
(* The camera of the scheduler (tower_defense.rs 592-658).  Map rows,      *)
(* offsets and scroll distances are f32 in the code; every value of the    *)
(* model is a whole number of pixels below 2409, where the f32 operations  *)
(* of these lines are exact and "as u64" is the integer floor.             *)
(* a.calls is the sequence of the input actions the scheduler performed:   *)
(* [op, id, arg, sent], sent telling whether the driver lock was obtained  *)
(* (a poisoned lock makes every "if let Ok(..) = self.driver.lock()" skip  *)
(* its input and leaves the bookkeeping after it in place).                *)
(***************************************************************************)
SafeTop == 200              \* TDConfig::default safe_zone[1], line 65
SafeBottom == 880           \* TDConfig::default safe_zone[3], line 65
SafeLeft == 200             \* safe_zone[0]
SafeRight == 1720           \* safe_zone[2]
ScreenH == 1080             \* screen_height, line 67
MoveSpeed == 300            \* move_speed, px per second, line 217
ScrollRes == 100            \* SCROLL_RES, ms, line 638
MoveThreshold == 90         \* line 633
MinScroll == 10             \* lines 611, 643, 651
AlignHold == 2500           \* line 599
UpgradeHold == 1500         \* line 585

Min(a, b) == IF a < b THEN a ELSE b
Abs(x) == IF x < 0 THEN -x ELSE x
Clamp(x, lo, hi) == Max(lo, Min(x, hi))

Call(op, id, arg, sent) == [op |-> op, id |-> id, arg |-> arg, sent |-> sent]

\* (meta.bottom - screen_height).max(0.0), lines 594 and 628.
MaxScrollY(a) == Max(a.map_meta.val.bottom - ScreenH, 0)

\* A variant of AlignCameraToEdge that goes to the top edge whatever edge was
\* asked for.
AlignCameraToEdgeAlwaysTop(a, top) ==
    [a EXCEPT !.camera_offset_y = 0,
              !.calls = Append(@, Call("align", "w", AlignHold, a.driver_ok))]

\* lines 592-603.
AlignCameraToEdge(a, top) ==
    [a EXCEPT !.camera_offset_y = IF top THEN 0 ELSE MaxScrollY(a),
              !.calls = Append(@, Call("align", IF top THEN "w" ELSE "s",
                                       AlignHold, a.driver_ok))]

\* lines 605-622: the key hold is a whole number of time_resolution_ms, at
\* least one; returns <<a, the distance the hold is assumed to scroll>>.
ScrollCameraByPixels(a, direction, pixels, time_resolution_ms) ==
    IF pixels < MinScroll THEN <<a, 0>>
    ELSE LET raw_ms == (pixels * 1000) \div MoveSpeed
             units == (raw_ms + time_resolution_ms \div 2) \div time_resolution_ms
             final_ms == Max(units, 1) * time_resolution_ms
         IN <<[a EXCEPT !.calls = Append(@, Call("scroll", direction,
                                                final_ms, a.driver_ok))],
              (final_ms * MoveSpeed) \div 1000>>

\* A variant of SmartMoveCamera that leaves the estimate at the edge it
\* aligned to, without adding the distance scrolled from it.
SmartMoveCameraEdgeOnly(a, target_map_y) ==
    LET max_scroll_y == MaxScrollY(a)
        ideal_cam_y == Clamp(target_map_y - (SafeTop + SafeBottom) \div 2,
                             0, max_scroll_y)
        delta == ideal_cam_y - a.camera_offset_y
    IN IF Abs(delta) < MoveThreshold THEN <<a, FALSE>>
       ELSE IF 2 * ideal_cam_y <= max_scroll_y
       THEN LET a1 == AlignCameraToEdge(a, TRUE)
            IN <<IF ideal_cam_y > MinScroll
                 THEN ScrollCameraByPixels(a1, "s", ideal_cam_y, ScrollRes)[1]
                 ELSE a1, TRUE>>
       ELSE LET a1 == AlignCameraToEdge(a, FALSE)
                dist_up == max_scroll_y - ideal_cam_y
            IN <<IF dist_up > MinScroll
                 THEN ScrollCameraByPixels(a1, "w", dist_up, ScrollRes)[1]
                 ELSE a1, TRUE>>

\* A variant of SmartMoveCamera without the test of line 633: it moves the
\* camera however small the distance is.
SmartMoveCameraNoThreshold(a, target_map_y) ==
    LET max_scroll_y == MaxScrollY(a)
        ideal_cam_y == Clamp(target_map_y - (SafeTop + SafeBottom) \div 2,
                             0, max_scroll_y)
    IN IF 2 * ideal_cam_y <= max_scroll_y
       THEN LET a1 == AlignCameraToEdge(a, TRUE)
            IN IF ideal_cam_y > MinScroll
               THEN LET r == ScrollCameraByPixels(a1, "s", ideal_cam_y, ScrollRes)
                    IN <<[r[1] EXCEPT !.camera_offset_y = @ + r[2]], TRUE>>
               ELSE <<a1, TRUE>>
       ELSE LET a1 == AlignCameraToEdge(a, FALSE)
                dist_up == max_scroll_y - ideal_cam_y
            IN IF dist_up > MinScroll
               THEN LET r == ScrollCameraByPixels(a1, "w", dist_up, ScrollRes)
                    IN <<[r[1] EXCEPT !.camera_offset_y = @ - r[2]], TRUE>>
               ELSE <<a1, TRUE>>

\* lines 624-658; returns <<a, whether the camera was moved>>.  The safe
\* zone centre (200 + 880) / 2 and max_scroll_y / 2 are compared exactly.
SmartMoveCamera(a, target_map_y) ==
    LET max_scroll_y == MaxScrollY(a)
        ideal_cam_y == Clamp(target_map_y - (SafeTop + SafeBottom) \div 2,
                             0, max_scroll_y)
        delta == ideal_cam_y - a.camera_offset_y
    IN IF Abs(delta) < MoveThreshold THEN <<a, FALSE>>
       ELSE IF 2 * ideal_cam_y <= max_scroll_y
       THEN LET a1 == AlignCameraToEdge(a, TRUE)
            IN IF ideal_cam_y > MinScroll
               THEN LET r == ScrollCameraByPixels(a1, "s", ideal_cam_y, ScrollRes)
                    IN <<[r[1] EXCEPT !.camera_offset_y = @ + r[2]], TRUE>>
               ELSE <<a1, TRUE>>
       ELSE LET a1 == AlignCameraToEdge(a, FALSE)
                dist_up == max_scroll_y - ideal_cam_y
            IN IF dist_up > MinScroll
               THEN LET r == ScrollCameraByPixels(a1, "w", dist_up, ScrollRes)
                    IN <<[r[1] EXCEPT !.camera_offset_y = @ - r[2]], TRUE>>
               ELSE <<a1, TRUE>>

\* The terrain of a level: MapMeta with the total map height bottom.
MapMeta(bottom) ==
    [grid_pixel_size |-> 100, offset_x |-> 0, offset_y |-> 0, bottom |-> bottom]

(***************************************************************************)
(* The scheduler (tower_defense.rs 318-590).  A strategy entry is a record *)
(* of the fields of BuildingExport, DemolishEvent or UpgradeEvent; names   *)
(* and upgrade keys are sequences of characters.                           *)
(***************************************************************************)
BuildingExport(uid, name, grid_y, wave_num, is_late) ==
    [uid |-> uid, name |-> name, grid_x |-> 3, grid_y |-> grid_y,
     width |-> 1, height |-> 1, wave_num |-> wave_num, is_late |-> is_late]
DemolishEvent(uid, name, grid_y, wave_num, is_late) ==
    [uid |-> uid, name |-> name, grid_x |-> 3, grid_y |-> grid_y,
     width |-> 1, height |-> 1, wave_num |-> wave_num, is_late |-> is_late]
UpgradeEvent(building_name, wave_num, is_late) ==
    [building_name |-> building_name, wave_num |-> wave_num, is_late |-> is_late]

\* format!("{}", n) of a wave number 0..99, and of a bool.
DigitChars == <<"0", "1", "2", "3", "4", "5", "6", "7", "8", "9">>
FormatInt(n) ==
    IF n < 10 THEN <<DigitChars[n + 1]>>
    ELSE <<DigitChars[(n \div 10) + 1], DigitChars[(n % 10) + 1]>>
FormatBool(b) == IF b THEN <<"t", "r", "u", "e">> ELSE <<"f", "a", "l", "s", "e">>

\* format!("{}-{}-{}", u.building_name, u.wave_num, u.is_late), lines 379, 587.
UpgradeKey(u) ==
    u.building_name \o <<"-">> \o FormatInt(u.wave_num) \o <<"-">> \o FormatBool(u.is_late)

\* lines 784-795: the centre of the footprint, in map pixels <<x, y>>.
GetAbsoluteMapPixel(a, gx, gy, w, h) ==
    IF ~a.map_meta.some THEN None
    ELSE LET meta == a.map_meta.val
         IN Some(<<meta.offset_x + ((2 * gx + w) * meta.grid_pixel_size) \div 2,
                   meta.offset_y + ((2 * gy + h) * meta.grid_pixel_size) \div 2>>)

\* lines 797-810.
GetTrapKey(a, name) ==
    LET hits == {i \in 1..Len(a.active_loadout) : a.active_loadout[i] = name}
        index == IF hits = {} THEN 0
                 ELSE (CHOOSE i \in hits : \A j \in hits : i <= j) - 1
    IN CASE index = 0 -> "4" [] index = 1 -> "5" [] index = 2 -> "6"
         [] index = 3 -> "7" [] OTHER -> "1"

\* lines 817-838: the loadout is the known trap names of the strategy, in
\* order of first appearance, buildings first.
RECURSIVE DeriveLoadout(_, _, _)
DeriveLoadout(names, trap_lookup, derived) ==
    IF names = <<>> THEN derived
    ELSE DeriveLoadout(Tail(names), trap_lookup,
                       IF ~Contains(derived, Head(names)) /\ Head(names) \in trap_lookup
                       THEN Append(derived, Head(names)) ELSE derived)

ScheduledTask(action, ev, px, priority) ==
    [action |-> action, ev |-> ev, map_y |-> px[2], map_x |-> px[1],
     priority |-> priority]

\* A variant of AreTasksInCurrentView that looks at the first task only.
AreTasksInCurrentViewFirst(a, tasks) ==
    LET safe_map_top == a.camera_offset_y + SafeTop
        safe_map_bottom == a.camera_offset_y + SafeBottom
    IN tasks = <<>> \/ ~(tasks[1].map_y < safe_map_top \/ tasks[1].map_y > safe_map_bottom)

\* lines 318-330.
AreTasksInCurrentView(a, tasks) ==
    LET safe_map_top == a.camera_offset_y + SafeTop
        safe_map_bottom == a.camera_offset_y + SafeBottom
    IN \A i \in 1..Len(tasks) :
          ~(tasks[i].map_y < safe_map_top \/ tasks[i].map_y > safe_map_bottom)

\* lines 490-521: select the square, confirm twice; the uid is recorded
\* whether or not the driver lock was obtained.
PerformDemolishAction(a, map_x, map_y, uid) ==
    LET screen_x == Clamp(map_x, SafeLeft, SafeRight)
        screen_y == Clamp(map_y - a.camera_offset_y, SafeTop, SafeBottom)
    IN [a EXCEPT !.calls = Append(@, Call("demolish", uid, <<screen_x, screen_y,
                                           <<"e", "e">>>>, a.driver_ok)),
                 !.completed_demolish_uids = @ \cup {uid}]

\* A variant of PerformBuildAction whose refresh sequence stops at the swap
\* key, without the second press of the tool key.
PerformBuildActionNoRepress(a, last_key, screen_moved, map_x, map_y, name, uid) ==
    LET screen_x == Clamp(map_x, SafeLeft, SafeRight)
        screen_y == Clamp(map_y - a.camera_offset_y, SafeTop, SafeBottom)
        key == GetTrapKey(a, name)
        swap_key == IF key = "4" THEN "5" ELSE "4"
        keys == IF screen_moved \/ ~last_key.some THEN <<key, swap_key>>
                ELSE IF Some(key) # last_key THEN <<key>> ELSE <<>>
        placed == [a EXCEPT !.placed_uids = @ \cup {uid}]
    IN IF a.driver_ok
       THEN <<[placed EXCEPT !.calls = Append(@, Call("build", uid,
                                  <<screen_x, screen_y, keys>>, TRUE))],
              IF keys = <<>> THEN last_key ELSE Some(key)>>
       ELSE <<[placed EXCEPT !.calls = Append(@, Call("build", uid,
                                  <<screen_x, screen_y, <<>>>>, FALSE))],
              last_key>>

\* A variant of PerformBuildAction that uses the three-step sequence only
\* when the screen moved.
PerformBuildActionMovedOnly(a, last_key, screen_moved, map_x, map_y, name, uid) ==
    LET screen_x == Clamp(map_x, SafeLeft, SafeRight)
        screen_y == Clamp(map_y - a.camera_offset_y, SafeTop, SafeBottom)
        key == GetTrapKey(a, name)
        swap_key == IF key = "4" THEN "5" ELSE "4"
        keys == IF screen_moved THEN <<key, swap_key, key>>
                ELSE IF Some(key) # last_key THEN <<key>> ELSE <<>>
        placed == [a EXCEPT !.placed_uids = @ \cup {uid}]
    IN IF a.driver_ok
       THEN <<[placed EXCEPT !.calls = Append(@, Call("build", uid,
                                  <<screen_x, screen_y, keys>>, TRUE))],
              IF keys = <<>> THEN last_key ELSE Some(key)>>
       ELSE <<[placed EXCEPT !.calls = Append(@, Call("build", uid,
                                  <<screen_x, screen_y, <<>>>>, FALSE))],
              last_key>>

\* A variant of PerformBuildAction that records the uid only when the driver
\* lock was obtained.
PerformBuildActionIfSent(a, last_key, screen_moved, map_x, map_y, name, uid) ==
    LET screen_x == Clamp(map_x, SafeLeft, SafeRight)
        screen_y == Clamp(map_y - a.camera_offset_y, SafeTop, SafeBottom)
        key == GetTrapKey(a, name)
        swap_key == IF key = "4" THEN "5" ELSE "4"
        keys == IF screen_moved \/ ~last_key.some THEN <<key, swap_key, key>>
                ELSE IF Some(key) # last_key THEN <<key>> ELSE <<>>
    IN IF a.driver_ok
       THEN <<[a EXCEPT !.placed_uids = @ \cup {uid},
                        !.calls = Append(@, Call("build", uid,
                                  <<screen_x, screen_y, keys>>, TRUE))],
              IF keys = <<>> THEN last_key ELSE Some(key)>>
       ELSE <<[a EXCEPT !.calls = Append(@, Call("build", uid,
                                  <<screen_x, screen_y, <<>>>>, FALSE))],
              last_key>>

\* lines 525-579: returns <<a, last_key>>.
PerformBuildAction(a, last_key, screen_moved, map_x, map_y, name, uid) ==
    LET screen_x == Clamp(map_x, SafeLeft, SafeRight)
        screen_y == Clamp(map_y - a.camera_offset_y, SafeTop, SafeBottom)
        key == GetTrapKey(a, name)
        swap_key == IF key = "4" THEN "5" ELSE "4"
        keys == IF screen_moved \/ ~last_key.some THEN <<key, swap_key, key>>
                ELSE IF Some(key) # last_key THEN <<key>> ELSE <<>>
        placed == [a EXCEPT !.placed_uids = @ \cup {uid}]
    IN IF a.driver_ok
       THEN <<[placed EXCEPT !.calls = Append(@, Call("build", uid,
                                  <<screen_x, screen_y, keys>>, TRUE))],
              IF keys = <<>> THEN last_key ELSE Some(key)>>
       ELSE <<[placed EXCEPT !.calls = Append(@, Call("build", uid,
                                  <<screen_x, screen_y, <<>>>>, FALSE))],
              last_key>>

\* lines 581-590.
ExecuteSingleUpgrade(a, u) ==
    [a EXCEPT !.calls = Append(@, Call("upgrade", UpgradeKey(u),
                                       <<GetTrapKey(a, u.building_name), UpgradeHold>>,
                                       a.driver_ok)),
              !.completed_upgrade_keys = @ \cup {UpgradeKey(u)}]

\* lines 455-486, from task i on.
RECURSIVE ProcessTasks(_, _, _, _, _, _)
ProcessTasks(a, tasks, i, last_build_key, is_first_task, force_initial_refresh) ==
    IF i > Len(tasks) THEN a
    ELSE LET task == tasks[i]
         IN IF task.action = "Upgrade"
            THEN ProcessTasks(ExecuteSingleUpgrade(a, task.ev), tasks, i + 1,
                              last_build_key, is_first_task, force_initial_refresh)
            ELSE LET r == SmartMoveCamera(a, task.map_y)
                     refresh == is_first_task /\ force_initial_refresh
                     screen_moved == r[2] \/ refresh
                     first == IF refresh THEN FALSE ELSE is_first_task
                 IN IF task.action = "Demolish"
                    THEN ProcessTasks(PerformDemolishAction(r[1], task.map_x,
                                                            task.map_y, task.ev.uid),
                                      tasks, i + 1, last_build_key, first,
                                      force_initial_refresh)
                    ELSE LET b == PerformBuildAction(r[1], last_build_key, screen_moved,
                                                     task.map_x, task.map_y,
                                                     task.ev.name, task.ev.uid)
                         IN ProcessTasks(b[1], tasks, i + 1, b[2], first,
                                         force_initial_refresh)

\* batches notes, for every call, how many input actions came before it and
\* its force_initial_refresh.
ProcessTaskBatch(a, tasks, force_initial_refresh) ==
    ProcessTasks([a EXCEPT !.batches = Append(@, [begin |-> Len(a.calls),
                                                  force |-> force_initial_refresh])],
                 tasks, 1, None, TRUE, force_initial_refresh)

\* Vec::sort_by, a stable sort: tasks in the order of keys, equal keys in
\* the order they had.
StableSort(tasks, keys) ==
    LET n == Len(tasks)
        rank(i) == Cardinality({j \in 1..n : \/ keys[j] < keys[i]
                                             \/ (keys[j] = keys[i] /\ j < i)})
    IN [k \in 1..n |-> tasks[CHOOSE i \in 1..n : rank(i) = k - 1]]

\* The orders of lines 423-428 and 439-444: map_y (ascending / descending),
\* then priority, which is 0, 1 or 2.
UpperKeys(tasks) == [i \in 1..Len(tasks) |-> 4 * tasks[i].map_y + tasks[i].priority]
\* A variant of LowerKeys that orders the rows as the upper region does.
LowerKeysAscending(tasks) ==
    [i \in 1..Len(tasks) |-> 4 * tasks[i].map_y + tasks[i].priority]
LowerKeys(tasks) == [i \in 1..Len(tasks) |-> tasks[i].priority - 4 * tasks[i].map_y]
PriorityKeys(tasks) == [i \in 1..Len(tasks) |-> tasks[i].priority]

\* A variant of DispatchRegion that leaves every camera move to
\* smart_move_camera.
DispatchRegionUnaligned(a, tasks, top) ==
    IF tasks = <<>> THEN a
    ELSE ProcessTaskBatch(a, tasks, ~AreTasksInCurrentView(a, tasks))

\* One region of lines 422-452.  regions notes, for every non-empty region,
\* which it is, the rows of its tasks in their order, the offset estimate
\* and how many input actions came before it.
DispatchRegion(a, tasks, top) ==
    IF tasks = <<>> THEN a
    ELSE LET r == [a EXCEPT !.regions = Append(@,
                       [top |-> top, at |-> Len(a.calls), offset |-> a.camera_offset_y,
                        rows |-> [i \in 1..Len(tasks) |-> tasks[i].map_y]])]
         IN IF AreTasksInCurrentView(r, tasks)
            THEN ProcessTaskBatch(r, tasks, FALSE)
            ELSE ProcessTaskBatch(AlignCameraToEdge(r, top), tasks, TRUE)

\* lines 412-453; map_meta.unwrap() panics when no terrain was loaded.
DispatchTasksByRegion(a, tasks) ==
    IF a.panicked THEN a
    ELSE IF ~a.map_meta.some THEN [a EXCEPT !.panicked = TRUE]
    ELSE LET map_h == a.map_meta.val.bottom
             IsUpper(t) == 2 * t.map_y <= (map_h - ScreenH) + ScreenH
             IsLower(t) == ~IsUpper(t)
             upper == SelectSeq(tasks, IsUpper)
             lower == SelectSeq(tasks, IsLower)
             a1 == DispatchRegion(a, StableSort(upper, UpperKeys(upper)), TRUE)
         IN DispatchRegion(a1, StableSort(lower, LowerKeys(lower)), FALSE)

\* The tasks of one strategy list that lines 342-388 collect.
RECURSIVE CollectTasks(_, _, _, _, _, _)
CollectTasks(a, kind, entries, wave, is_late, acc) ==
    IF entries = <<>> THEN acc
    ELSE LET e == Head(entries)
             rest == Tail(entries)
             tagged == e.wave_num = wave /\ e.is_late = is_late
         IN IF kind = "Upgrade"
            THEN CollectTasks(a, kind, rest, wave, is_late,
                     IF tagged /\ UpgradeKey(e) \notin a.completed_upgrade_keys
                     THEN Append(acc, ScheduledTask("Upgrade", e, <<0, 0>>, 2))
                     ELSE acc)
            ELSE LET done == IF kind = "Demolish" THEN a.completed_demolish_uids
                             ELSE a.placed_uids
                     px == GetAbsoluteMapPixel(a, e.grid_x, e.grid_y, e.width, e.height)
                 IN CollectTasks(a, kind, rest, wave, is_late,
                        IF tagged /\ e.uid \notin done /\ px.some
                        THEN Append(acc, ScheduledTask(kind, e, px.val,
                                        IF kind = "Demolish" THEN 0 ELSE 1))
                        ELSE acc)

\* A variant of ExecuteWavePhase that dispatches the demolish tasks with the
\* others, in one pass ordered by priority.
ExecuteWavePhaseOnePass(a, wave, is_late) ==
    LET tasks ==
            CollectTasks(a, "Upgrade", a.strategy_upgrades, wave, is_late,
                CollectTasks(a, "Place", a.strategy_buildings, wave, is_late,
                    CollectTasks(a, "Demolish", a.strategy_demolishes, wave, is_late,
                                 <<>>)))
    IN IF tasks = <<>> THEN a
       ELSE DispatchTasksByRegion(a, StableSort(tasks, PriorityKeys(tasks)))

\* lines 332-410.  phases notes, for every call, its arguments and how many
\* input actions came before it.
ExecuteWavePhase(a0, wave, is_late) ==
    LET a == [a0 EXCEPT !.phases = Append(@, [wave |-> wave, is_late |-> is_late,
                                              at |-> Len(a0.calls)])]
        demolish_tasks ==
            CollectTasks(a, "Demolish", a.strategy_demolishes, wave, is_late, <<>>)
        build_upgrade_tasks ==
            CollectTasks(a, "Upgrade", a.strategy_upgrades, wave, is_late,
                CollectTasks(a, "Place", a.strategy_buildings, wave, is_late, <<>>))
        a1 == IF demolish_tasks # <<>>
              THEN DispatchTasksByRegion(a, demolish_tasks) ELSE a
    IN IF demolish_tasks = <<>> /\ build_upgrade_tasks = <<>> THEN a
       ELSE IF build_upgrade_tasks # <<>>
       THEN DispatchTasksByRegion(a1,
                StableSort(build_upgrade_tasks, PriorityKeys(build_upgrade_tasks)))
       ELSE a1

(***************************************************************************)
(* SpecCamera: smart_move_camera called repeatedly with one target row,    *)
(* from every offset estimate in [0, max_scroll] on maps shorter than,     *)
(* and taller than, the screen.                                            *)
(***************************************************************************)
CamBottoms == {900, 1500, 2000}
TargetRows == {5 * k : k \in 0..MaxRowIndex}
OffsetEstimates(bottom) ==
    {10 * k : k \in {j \in 0..MaxOffsetIndex : 10 * j <= Max(bottom - ScreenH, 0)}}

\* The first call, with any target row.
SmartMoveFirst ==
    /\ app.pc = "camera" /\ app.moved = <<>>
    /\ \E t \in TargetRows :
          LET r == SmartMoveCamera(app, t)
          IN app' = [r[1] EXCEPT !.target_map_y = t, !.moved = <<r[2]>>,
                                 !.before = <<app.camera_offset_y, app.calls>>]
    /\ UNCHANGED <<scenes, fp, ms, nav, now, dev, thr>>

\* A further call with the same target row.
SmartMoveAgain ==
    /\ app.pc = "camera" /\ app.moved # <<>> /\ Len(app.moved) < MaxMoves
    /\ LET r == SmartMoveCamera(app, app.target_map_y)
       IN app' = [r[1] EXCEPT !.moved = Append(@, r[2]),
                              !.before = <<app.camera_offset_y, app.calls>>]
    /\ UNCHANGED <<scenes, fp, ms, nav, now, dev, thr>>

InitCamera ==
    /\ scenes = SceneTable(<<>>, AndLogic, OneTextAnchor)
    /\ fp = FpIdle
    /\ ms = MsIdle
    /\ nav = NavOff
    /\ \E bottom \in CamBottoms : \E y \in OffsetEstimates(bottom) :
          app = [AppNew EXCEPT !.pc = "camera", !.map_meta = Some(MapMeta(bottom)),
                               !.camera_offset_y = y]
    /\ now = 0
    /\ dev = DevIdle
    /\ thr = ThrOff

NextCamera == SmartMoveFirst \/ SmartMoveAgain

SpecCamera == InitCamera /\ [][NextCamera]_vars

\* C13: when smart_move_camera(t) returned true, every immediately following
\* smart_move_camera(t) with the same t returns false, performs no input
\* action and leaves the offset estimate as it was.
C13_SecondMoveIsNoOp ==
    (Len(app.moved) >= 2 /\ app.moved[1]) =>
        /\ ~app.moved[Len(app.moved)]
        /\ app.calls = app.before[2]
        /\ app.camera_offset_y = app.before[1]

\* A second call after a move to the bottom edge and a scroll up from it.
C13_Witness ==
    /\ Len(app.moved) = 2 /\ app.moved[1] /\ ~app.moved[2]
    /\ Len(app.calls) = 2 /\ app.calls[1].id = "s" /\ app.calls[2].id = "w"
    /\ app.camera_offset_y # MaxScrollY(app)


\* The input actions of the last call of smart_move_camera.
LastMoveCalls == SubSeq(app.calls, Len(app.before[2]) + 1, Len(app.calls))

\* The offset that puts the target row at the centre of the safe zone,
\* within [0, max_scroll].
IdealOffset ==
    LET c == app.target_map_y - (SafeTop + SafeBottom) \div 2
        m == MaxScrollY(app)
    IN IF c < 0 THEN 0 ELSE IF c > m THEN m ELSE c

\* C26: with ideal = clamp(t - safe zone centre, 0, max_scroll), the call
\* smart_move_camera(t) returns false, sends no input and keeps the offset
\* estimate when |ideal - offset| < 90; otherwise it returns true after
\* exactly one edge alignment, to the top iff ideal <= max_scroll / 2,
\* followed by at most one scroll away from that edge.
C26_SmartMoveContract ==
    app.moved # <<>> =>
        LET ret == app.moved[Len(app.moved)]
            top == 2 * IdealOffset <= MaxScrollY(app)
        IN /\ ret = ~(Abs(IdealOffset - app.before[1]) < MoveThreshold)
           /\ ~ret => /\ LastMoveCalls = <<>>
                      /\ app.camera_offset_y = app.before[1]
           /\ ret => /\ Len(LastMoveCalls) \in {1, 2}
                     /\ LastMoveCalls[1].op = "align"
                     /\ LastMoveCalls[1].id = (IF top THEN "w" ELSE "s")
                     /\ Len(LastMoveCalls) = 2 =>
                           /\ LastMoveCalls[2].op = "scroll"
                           /\ LastMoveCalls[2].id = (IF top THEN "s" ELSE "w")

\* A first call that aligned to the bottom edge and scrolled up from it, on
\* the map 2000 px tall.
C26_Witness ==
    /\ Len(app.moved) = 1 /\ app.moved[1]
    /\ MaxScrollY(app) = 920
    /\ Len(app.calls) = 2
    /\ app.calls[1].op = "align" /\ app.calls[1].id = "s"
    /\ app.calls[2].op = "scroll" /\ app.calls[2].id = "w"

(***************************************************************************)
(* SpecPhase: execute_wave_phase called in any order, repeatedly, on every *)
(* strategy of at most MaxTasks entries, with and without the terrain      *)
(* loaded and with and without a working driver lock.  On a map 2000 px    *)
(* tall, grid rows 5 and 8 are inside the safe zone of the top edge (row 8 *)
(* far from its centre), row 9 is below it in the upper half and rows 12   *)
(* and 15 are in the lower half; row 0, of a demolish task, is less than   *)
(* 200 px from the top of the map.                                         *)
(***************************************************************************)
Names == {<<"a">>, <<"b">>}
Waves == {1}
Tags == {<<1, FALSE>>, <<1, TRUE>>}
BuildRows == {5, 8, 9, 12, 15}
DemolishRows == {0, 5, 15}
PhaseBottom == 2000

NameOf(uid) == IF uid % 2 = 1 THEN <<"a">> ELSE <<"b">>

Buildings(n) ==
    {[i \in 1..n |-> BuildingExport(i, NameOf(i), f[i][1], f[i][2][1], f[i][2][2])] :
        f \in [1..n -> BuildRows \X Tags]}
Demolishes(n) ==
    {[i \in 1..n |-> DemolishEvent(i, NameOf(i), f[i][1], f[i][2][1], f[i][2][2])] :
        f \in [1..n -> DemolishRows \X Tags]}
Upgrades(n) ==
    {[i \in 1..n |-> UpgradeEvent(f[i][1], f[i][2][1], f[i][2][2])] :
        f \in [1..n -> {<<"a">>} \X Tags]}

\* load_strategy (221-237) and the loadout of run (817-838).
LoadStrategy(a, b, d, u) ==
    [a EXCEPT !.strategy_buildings = b, !.strategy_demolishes = d,
              !.strategy_upgrades = u,
              !.trap_lookup = Names,
              !.active_loadout =
                  DeriveLoadout([i \in 1..Len(b) |-> b[i].name] \o
                                [i \in 1..Len(u) |-> u[i].building_name],
                                Names, <<>>)]

\* One call execute_wave_phase(wave, is_late): calls holds its input
\* actions, args its arguments and repeated whether the call before it had
\* the same arguments.
ExecutePhase ==
    /\ app.pc = "phase" /\ ~app.panicked
    /\ \E wave \in Waves, is_late \in BOOLEAN :
          app' = [ExecuteWavePhase([app EXCEPT !.calls = <<>>, !.regions = <<>>,
                                               !.batches = <<>>, !.phases = <<>>],
                                         wave, is_late)
                     EXCEPT !.args = <<wave, is_late>>,
                            !.repeated = (app.args = <<wave, is_late>>)]
    /\ UNCHANGED <<scenes, fp, ms, nav, now, dev, thr>>

InitPhase ==
    /\ scenes = SceneTable(<<>>, AndLogic, OneTextAnchor)
    /\ fp = FpIdle
    /\ ms = MsIdle
    /\ nav = NavOff
    /\ \E env \in {<<TRUE, TRUE>>, <<TRUE, FALSE>>, <<FALSE, TRUE>>} :
       \E i \in 0..MaxTasks : \E j \in 0..(MaxTasks - i) : \E k \in 0..(MaxTasks - i - j) :
       \E b \in Buildings(i), d \in Demolishes(j), u \in Upgrades(k) :
          app = LoadStrategy([AppNew EXCEPT !.pc = "phase",
                                 !.map_meta = IF env[1] THEN Some(MapMeta(PhaseBottom))
                                              ELSE None,
                                 !.driver_ok = env[2]], b, d, u)
    /\ now = 0
    /\ dev = DevIdle
    /\ thr = ThrOff

NextPhase == ExecutePhase

SpecPhase == InitPhase /\ [][NextPhase]_vars

(***************************************************************************)
(* Claims on execute_wave_phase.  A step of SpecPhase is one call: app is  *)
(* the scheduler the call started with, app' the scheduler it left and     *)
(* app'.calls the input actions it performed, in order.                    *)
(***************************************************************************)
IsDispatch(c) == c.op \in {"demolish", "build", "upgrade"}
Dispatched(calls) == {i \in 1..Len(calls) : IsDispatch(calls[i])}
AlignsBefore(calls, i) == Cardinality({j \in 1..(i - 1) : calls[j].op = "align"})
CameraMovesBefore(calls, i) == {j \in 1..(i - 1) : calls[j].op \in {"align", "scroll"}}
RowOfBuilding(a, uid) ==
    LET b == CHOOSE b \in {a.strategy_buildings[k] : k \in 1..Len(a.strategy_buildings)} :
                 b.uid = uid
    IN GetAbsoluteMapPixel(a, b.grid_x, b.grid_y, b.width, b.height).val[2]
InSafeZone(y, offset) == offset + SafeTop <= y /\ y <= offset + SafeBottom
CompletionSet(a, op) ==
    CASE op = "demolish" -> a.completed_demolish_uids
      [] op = "build" -> a.placed_uids
      [] op = "upgrade" -> a.completed_upgrade_keys

\* C14: the completion sets only grow, and a call dispatches no action whose
\* id or key is already in its completion set, be it from an earlier call
\* or from an earlier action of the same call (stated for the runs whose
\* driver lock works, where every dispatched action is sent).
C14_NoActionDispatchedTwice ==
    [][app.driver_ok =>
       /\ \A op \in {"demolish", "build", "upgrade"} :
             CompletionSet(app, op) \subseteq CompletionSet(app', op)
       /\ \A i \in Dispatched(app'.calls) :
             /\ app'.calls[i].id \notin CompletionSet(app, app'.calls[i].op)
             /\ \A j \in 1..(i - 1) :
                   ~(/\ app'.calls[j].op = app'.calls[i].op
                     /\ app'.calls[j].id = app'.calls[i].id)]_vars

\* C15, as claimed: before the placement of a build task whose row was
\* outside the safe zone of the offset the call started with, the call
\* performs exactly one edge alignment (stated for the runs whose driver
\* lock works).
C15_ExactlyOneAlignment ==
    [][\A i \in Dispatched(app'.calls) :
          (/\ app'.calls[i].op = "build" /\ app.driver_ok
           /\ ~InSafeZone(RowOfBuilding(app, app'.calls[i].id), app.camera_offset_y))
          => AlignsBefore(app'.calls, i) = 1]_vars

\* C15, amended: before that placement the call performs at least one edge
\* alignment; when the build task is the only task of the call it performs
\* one when the ideal offset of the row is less than 90 px from the edge of
\* the row's region, and two otherwise.
C15_AtLeastOneAlignment ==
    [][\A i \in Dispatched(app'.calls) :
          (/\ app'.calls[i].op = "build"
           /\ ~InSafeZone(RowOfBuilding(app, app'.calls[i].id), app.camera_offset_y))
          => LET y == RowOfBuilding(app, app'.calls[i].id)
                 max_scroll == MaxScrollY(app)
                 edge == IF 2 * y <= app.map_meta.val.bottom THEN 0 ELSE max_scroll
                 ideal == Clamp(y - 540, 0, max_scroll)
             IN /\ AlignsBefore(app'.calls, i) >= 1
                /\ Dispatched(app'.calls) = {i} =>
                      AlignsBefore(app'.calls, i) =
                          IF Abs(ideal - edge) < 90 THEN 1 ELSE 2]_vars

\* A call whose only task was a build in row 9, below the safe zone of the
\* top edge: aligned to the top twice, scrolled down, then placed.
C15_Witness ==
    /\ Len(app.calls) = 4
    /\ app.calls[1].op = "align" /\ app.calls[2].op = "align"
    /\ app.calls[3].op = "scroll" /\ app.calls[4].op = "build"
    /\ RowOfBuilding(app, app.calls[4].id) = 950

\* C16: before the placement of a build task whose row was inside the safe
\* zone of the offset the call started with, the call performs no edge
\* alignment and no scroll, and the task is placed under that same offset
\* (stated for the runs whose driver lock works).
C16_NoCameraMovementInZone ==
    [][\A i \in Dispatched(app'.calls) :
          (/\ app'.calls[i].op = "build" /\ app.driver_ok
           /\ InSafeZone(RowOfBuilding(app, app'.calls[i].id), app.camera_offset_y))
          => /\ CameraMovesBefore(app'.calls, i) = {}
             /\ app'.calls[i].arg[2] =
                    Clamp(RowOfBuilding(app, app'.calls[i].id) - app.camera_offset_y,
                          SafeTop, SafeBottom)]_vars

\* C17: in the input actions of one call, no build or upgrade comes before
\* a demolish.
C17_DemolishFirst ==
    \A i \in 1..Len(app.calls) : \A j \in 1..Len(app.calls) :
        (app.calls[i].op \in {"build", "upgrade"} /\ app.calls[j].op = "demolish")
            => j < i

\* A call that demolished in the lower and in the upper region, then built.
C17_Witness ==
    /\ \E i, j, k \in 1..Len(app.calls) :
          /\ i < j /\ j < k
          /\ app.calls[i].op = "demolish" /\ app.calls[j].op = "demolish"
          /\ app.calls[k].op = "build"
          /\ app.calls[i].arg[2] # app.calls[j].arg[2]
    /\ \E i \in 1..Len(app.calls) : app.calls[i].op = "align" /\ app.calls[i].id = "s"

TasksTagged(a, args) ==
    [demolish |-> {a.strategy_demolishes[i].uid : i \in
                      {k \in 1..Len(a.strategy_demolishes) :
                          /\ a.strategy_demolishes[k].wave_num = args[1]
                          /\ a.strategy_demolishes[k].is_late = args[2]}},
     build |-> {a.strategy_buildings[i].uid : i \in
                      {k \in 1..Len(a.strategy_buildings) :
                          /\ a.strategy_buildings[k].wave_num = args[1]
                          /\ a.strategy_buildings[k].is_late = args[2]}},
     upgrade |-> {UpgradeKey(a.strategy_upgrades[i]) : i \in
                      {k \in 1..Len(a.strategy_upgrades) :
                          /\ a.strategy_upgrades[k].wave_num = args[1]
                          /\ a.strategy_upgrades[k].is_late = args[2]}}]

\* C18: with the terrain loaded, when execute_wave_phase(w, p) has returned
\* every task tagged (w, p) is in its completion set, and a call with the
\* arguments of the call before it performs no input action and leaves the
\* scheduler as it was.
C18_RepeatedPhaseIsNoOp ==
    /\ []((app.pc = "phase" /\ app.args # <<>> /\ app.map_meta.some) =>
            /\ ~app.panicked
            /\ TasksTagged(app, app.args).demolish \subseteq app.completed_demolish_uids
            /\ TasksTagged(app, app.args).build \subseteq app.placed_uids
            /\ TasksTagged(app, app.args).upgrade \subseteq app.completed_upgrade_keys)
    /\ [][(app.pc = "phase" /\ app.map_meta.some /\ app'.args = app.args) =>
            app' = [app EXCEPT !.calls = <<>>, !.regions = <<>>, !.batches = <<>>,
                               !.repeated = TRUE]]_vars

\* A repeated call after one that demolished, built and upgraded without
\* the driver lock.
C18_Witness ==
    /\ app.pc = "phase" /\ app.repeated /\ app.calls = <<>> /\ ~app.driver_ok
    /\ app.map_meta.some
    /\ TasksTagged(app, app.args).demolish # {}
    /\ TasksTagged(app, app.args).build # {}
    /\ TasksTagged(app, app.args).upgrade # {}


\* The input actions of the k-th region of the call end at RegionEnd.
RegionEnd(a, k) == IF k < Len(a.regions) THEN a.regions[k + 1].at ELSE Len(a.calls)
RegionInView(g) == \A i \in 1..Len(g.rows) : InSafeZone(g.rows[i], g.offset)
FirstSpatial(a, k) ==
    LET js == {j \in (a.batches[k].begin + 1)..RegionEnd(a, k) :
                  a.calls[j].op \in {"demolish", "build"}}
    IN IF js = {} THEN 0 ELSE CHOOSE j \in js : \A i \in js : j <= i

RowOfDemolish(a, uid) ==
    LET d == CHOOSE d \in {a.strategy_demolishes[k] : k \in 1..Len(a.strategy_demolishes)} :
                 d.uid = uid
    IN GetAbsoluteMapPixel(a, d.grid_x, d.grid_y, d.width, d.height).val[2]
RowOfCall(a, c) ==
    CASE c.op = "demolish" -> RowOfDemolish(a, c.id)
      [] c.op = "build" -> RowOfBuilding(a, c.id)
      [] OTHER -> 0
PriorityOfCall(c) ==
    CASE c.op = "demolish" -> 0 [] c.op = "build" -> 1 [] OTHER -> 2
InUpperHalf(a, y) == 2 * y <= a.map_meta.val.bottom
SamePass(c, d) == (c.op = "demolish") <=> (d.op = "demolish")
DispatchedRows(a) ==
    LET ds == SelectSeq(a.calls, IsDispatch)
    IN [k \in 1..Len(ds) |-> RowOfCall(a, ds[k])]

C27_UpgradeMovesNoCamera ==
    [][(/\ app.driver_ok
        /\ \E i \in Dispatched(app'.calls) : app'.calls[i].op = "upgrade"
        /\ \A i \in Dispatched(app'.calls) :
              \/ app'.calls[i].op = "upgrade"
              \/ /\ app'.calls[i].op = "build"
                 /\ InSafeZone(RowOfBuilding(app, app'.calls[i].id), app.camera_offset_y))
       => /\ \A j \in 1..Len(app'.calls) : app'.calls[j].op \notin {"align", "scroll"}
          /\ app'.camera_offset_y = app.camera_offset_y]_vars


\* The builds of the last call of execute_wave_phase, the batch each belongs
\* to, and what came before each in its batch.
Builds == {i \in 1..Len(app.calls) : app.calls[i].op = "build"}
BatchOf(i) ==
    LET before == {k \in 1..Len(app.batches) : app.batches[k].begin < i}
    IN app.batches[CHOOSE k \in before : \A l \in before : l <= k]
ToolOfBuild(i) ==
    LET b == CHOOSE b \in {app.strategy_buildings[k] :
                              k \in 1..Len(app.strategy_buildings)} :
                 b.uid = app.calls[i].id
    IN GetTrapKey(app, b.name)
\* smart_move_camera moved the camera for the task of call i.
MovedFor(i) == i - 1 > BatchOf(i).begin /\ app.calls[i - 1].op \in {"align", "scroll"}
\* Call i is the first build or demolish of a batch that began with an edge
\* alignment.
FirstOfFreshBatch(i) ==
    /\ BatchOf(i).force
    /\ \A j \in (BatchOf(i).begin + 1)..(i - 1) : app.calls[j].op = "upgrade"
EarlierBuilds(i) == {j \in Builds : BatchOf(i).begin < j /\ j < i}
LastPlacedTool(i) ==
    ToolOfBuild(CHOOSE j \in EarlierBuilds(i) : \A l \in EarlierBuilds(i) : l <= j)
ThreeStep(i) ==
    LET key == ToolOfBuild(i)
    IN <<key, IF key = "4" THEN "5" ELSE "4", key>>

\* C28 as the specification states it: the three-step sequence exactly when
\* the camera just moved for the task or the task is the first action of a
\* freshly edge-aligned batch; otherwise one press of the tool key when the
\* tool differs from the last-placed tool, and no press when it is the same
\* (stated for the runs whose driver lock works, where a build action ends
\* with its double-click).
C28_ToolKeysAsStated ==
    app.driver_ok =>
        \A i \in Builds :
            /\ app.calls[i].sent
            /\ app.calls[i].arg[3] =
                  IF MovedFor(i) \/ FirstOfFreshBatch(i) THEN ThreeStep(i)
                  ELSE IF EarlierBuilds(i) = {} \/ LastPlacedTool(i) # ToolOfBuild(i)
                       THEN <<ToolOfBuild(i)>>
                       ELSE <<>>

\* C28, amended: the three-step sequence exactly when the camera just moved
\* for the task, or the task is the first action of a freshly edge-aligned
\* batch, or no build was placed earlier in the batch; otherwise one press of
\* the tool key when the tool differs from the last-placed tool of the batch,
\* and no press when it is the same.
C28_ToolKeys ==
    app.driver_ok =>
        \A i \in Builds :
            /\ app.calls[i].sent
            /\ app.calls[i].arg[3] =
                  IF MovedFor(i) \/ FirstOfFreshBatch(i) \/ EarlierBuilds(i) = {}
                  THEN ThreeStep(i)
                  ELSE IF LastPlacedTool(i) # ToolOfBuild(i)
                       THEN <<ToolOfBuild(i)>>
                       ELSE <<>>

\* Two builds of one tool in a batch that was not aligned and moved no
\* camera: the first with the three-step sequence, the second with no press.
C28_Witness ==
    /\ app.driver_ok
    /\ {1, 2} \subseteq Builds
    /\ ~app.batches[1].force /\ BatchOf(2) = app.batches[1]
    /\ app.calls[1].arg[3] = ThreeStep(1)
    /\ app.calls[2].arg[3] = <<>>


\* The calls of the batch of build i that sent a tool key before the
\* double-click of i: upgrades, earlier builds that pressed a key, and i
\* itself when it pressed one.
KeyCallsUpTo(i) ==
    {j \in (BatchOf(i).begin + 1)..i :
        \/ app.calls[j].op = "upgrade"
        \/ app.calls[j].op = "build" /\ app.calls[j].arg[3] # <<>>}
\* the last key call j sent: the key an upgrade held, or the last press of
\* a build
LastKeyOf(j) ==
    IF app.calls[j].op = "upgrade" THEN app.calls[j].arg[1]
    ELSE app.calls[j].arg[3][Len(app.calls[j].arg[3])]

RECURSIVE OffsetAfter(_, _, _, _)
OffsetAfter(a, calls, n, start) ==
    IF n = 0 THEN start
    ELSE LET c == calls[n]
             prev == OffsetAfter(a, calls, n - 1, start)
         IN CASE c.op = "align" -> IF c.id = "w" THEN 0 ELSE MaxScrollY(a)
              [] c.op = "scroll" ->
                    IF c.id = "s" THEN prev + (c.arg * MoveSpeed) \div 1000
                    ELSE prev - (c.arg * MoveSpeed) \div 1000
              [] OTHER -> prev

\* C29: when the click of a build or demolish task is issued, the task's
\* on-screen row map_y - offset lies within [safe_top, safe_bottom], and the
\* click lands on that row (stated for the runs whose driver lock works).
C29_ClickInsideSafeZone ==
    [][(app.map_meta.some /\ app.driver_ok) =>
          \A i \in 1..Len(app'.calls) :
             app'.calls[i].op \in {"build", "demolish"} =>
                LET row == RowOfCall(app, app'.calls[i])
                    offset == OffsetAfter(app, app'.calls, i - 1, app.camera_offset_y)
                IN /\ 0 <= row /\ row <= app.map_meta.val.bottom
                   /\ SafeTop <= row - offset /\ row - offset <= SafeBottom
                   /\ app'.calls[i].arg[2] = row - offset]_vars

(***************************************************************************)
(* SpecScenario: validate_wave_transition on the detections 1, 2, 2, 3,    *)
(* each at most 10 s after the one before, followed by detections of any   *)
(* wave after any pause.  verdicts keeps each detection, the time it was   *)
(* made at and what validate_wave_transition returned.                     *)
(***************************************************************************)
Script == <<1, 2, 2, 3>>
ShortGaps == {1000, 5000, 10000}
LongGaps == {10000, 30000, 60000, 120000}

\* A monitoring cycle read the next wave number and validates it (868-873).
ScenarioDetect ==
    /\ app.pc = "scenario"
    /\ Len(app.verdicts) < MaxCycles
    /\ \E detected_wave \in (IF Len(app.verdicts) < Len(Script)
                             THEN {Script[Len(app.verdicts) + 1]} ELSE 0..MaxDetect) :
          LET a == ValidateWaveTransition(app, detected_wave, now)
          IN app' = [a EXCEPT !.pc = "scenario_sleep",
                              !.detected_wave = detected_wave,
                              !.verdicts = Append(@, [wave |-> detected_wave,
                                                      at |-> now, ok |-> a.ret])]
    /\ UNCHANGED <<scenes, fp, ms, nav, now, dev, thr>>

\* The pause until the next detection.
ScenarioSleep ==
    /\ app.pc = "scenario_sleep"
    /\ \E d \in (IF Len(app.verdicts) < Len(Script) THEN ShortGaps ELSE LongGaps) :
          now' = now + d
    /\ app' = [app EXCEPT !.pc = "scenario"]
    /\ UNCHANGED <<scenes, fp, ms, nav, dev, thr>>

InitScenario ==
    /\ scenes = SceneTable(<<>>, AndLogic, OneTextAnchor)
    /\ fp = FpIdle
    /\ ms = MsIdle
    /\ nav = NavOff
    /\ app = [AppNew EXCEPT !.pc = "scenario"]
    /\ now = 0
    /\ dev = DevIdle
    /\ thr = ThrOff

NextScenario == ScenarioDetect \/ ScenarioSleep

SpecScenario == InitScenario /\ [][NextScenario]_vars

Verdict(i) == app.verdicts[i]
CooldownOver(i) == Verdict(i).at - Verdict(1).at >= 60000

\* C12, as claimed: of the detections 1, 2, 2, 3 the first is accepted and
\* the other three are rejected, and a detection of 3 that follows them
\* once 60 s have passed since the accepted one is accepted.
C12_ThreeAcceptedAfterCooldown ==
    /\ Len(app.verdicts) >= 1 => Verdict(1).ok
    /\ \A i \in 2..4 : Len(app.verdicts) >= i => ~Verdict(i).ok
    /\ (Len(app.verdicts) >= 5 /\ Verdict(5).wave = 3 /\ CooldownOver(5))
           => Verdict(5).ok

\* C12, amended: the first is accepted and the other three are rejected;
\* the detection that follows them is accepted exactly when it is a
\* detection of 2 made once 60 s have passed since the accepted one; a
\* detection of 3 is rejected then too, last_confirmed being 1.
C12_OnlyTwoAcceptedAfterCooldown ==
    /\ Len(app.verdicts) >= 1 => Verdict(1).ok
    /\ \A i \in 2..4 : Len(app.verdicts) >= i => ~Verdict(i).ok
    /\ Len(app.verdicts) >= 5 =>
          /\ Verdict(5).ok <=> (Verdict(5).wave = 2 /\ CooldownOver(5))
          /\ Verdict(5).wave = 3 => ~Verdict(5).ok

\* The detection of 3 made 60 s or more after the accepted detection of 1,
\* and rejected.
C12_Witness ==
    /\ Len(app.verdicts) = 5 /\ Verdict(5).wave = 3 /\ CooldownOver(5)
    /\ ~Verdict(5).ok /\ app.last_confirmed_wave = 1

(***************************************************************************)
(* recognize_wave_status (tower_defense.rs 239-298).  An OCR text is a     *)
(* sequence of characters.  The two patterns are those of lines 282 and    *)
(* 289, matched as Regex::captures matches them: the leftmost match, every *)
(* repetition as long as the rest of the pattern allows; "." is any        *)
(* character but a line feed.  The characters U+6CE2, U+6B21 and U+65E5    *)
(* of the patterns are written "bo", "ci" and "ri".                        *)
(***************************************************************************)
KeyTab == 43                \* KEY_TAB, 0x2B, line 240
I32Max == 2147483647        \* i32::MAX, the range of parse::<i32>

Digits == <<"0", "1", "2", "3", "4", "5", "6", "7", "8", "9">>
IsDigit(c) == \E d \in 1..10 : Digits[d] = c
DigitVal(c) == (CHOOSE d \in 1..10 : Digits[d] = c) - 1
IsClass(c) == IsDigit(c) \/ c \in {"/", "S", "I", "ri"}
IsSpace(c) == c \in {" ", "\n", "\t"}
WaveWordAt(text, q) == q + 1 <= Len(text) /\ text[q] = "bo" /\ text[q + 1] = "ci"

AddCall(a, op, id, arg) == [a EXCEPT !.calls = Append(@, Call(op, id, arg, a.driver_ok))]

\* "(\d+)[/\dSI<ri>]+.*<bo><ci>" matches from s with k digits captured.
MatchTab(text, s, k) ==
    /\ \A i \in s..(s + k - 1) : IsDigit(text[i])
    /\ \E m \in 1..(Len(text) - s - k) :
          /\ \A i \in (s + k)..(s + k + m - 1) : IsClass(text[i])
          /\ \E q \in (s + k + m)..(Len(text) - 1) :
                /\ WaveWordAt(text, q)
                /\ \A i \in (s + k + m)..(q - 1) : text[i] # "\n"

\* caps.get(1) of the pattern of line 282.
TabCapture(text) ==
    LET starts == {s \in 1..Len(text) : \E k \in 1..(Len(text) - s) : MatchTab(text, s, k)}
    IN IF starts = {} THEN None
       ELSE LET s == CHOOSE x \in starts : \A y \in starts : x <= y
                ks == {k \in 1..(Len(text) - s) : MatchTab(text, s, k)}
                k == CHOOSE x \in ks : \A y \in ks : y <= x
            IN Some(SubSeq(text, s, s + k - 1))

\* The index after the run of white space, and of digits, that starts at p.
RECURSIVE SpaceRunEnd(_, _)
SpaceRunEnd(text, p) ==
    IF p <= Len(text) /\ IsSpace(text[p]) THEN SpaceRunEnd(text, p + 1) ELSE p
RECURSIVE DigitRunEnd(_, _)
DigitRunEnd(text, p) ==
    IF p <= Len(text) /\ IsDigit(text[p]) THEN DigitRunEnd(text, p + 1) ELSE p

\* caps.get(1) of the pattern of line 289, "<bo><ci>\s*(\d+)".
HudCapture(text) ==
    LET starts == {q \in 1..Len(text) :
                      /\ WaveWordAt(text, q)
                      /\ LET p == SpaceRunEnd(text, q + 2)
                         IN p <= Len(text) /\ IsDigit(text[p])}
    IN IF starts = {} THEN None
       ELSE LET q == CHOOSE x \in starts : \A y \in starts : x <= y
                p == SpaceRunEnd(text, q + 2)
            IN Some(SubSeq(text, p, DigitRunEnd(text, p) - 1))

RECURSIVE DigitsValue(_)
DigitsValue(d) ==
    IF d = <<>> THEN 0
    ELSE 10 * DigitsValue(SubSeq(d, 1, Len(d) - 1)) + DigitVal(d[Len(d)])

RECURSIVE StripZeros(_)
StripZeros(d) == IF Len(d) > 1 /\ d[1] = "0" THEN StripZeros(Tail(d)) ELSE d

\* str::parse::<i32> of a run of digits: an error above i32::MAX.
ParseI32(d) ==
    LET sig == StripZeros(d)
    IN IF Len(sig) <= 9 THEN Some(DigitsValue(sig))
       ELSE IF /\ Len(sig) = 10
               /\ \/ DigitVal(sig[1]) < 2
                  \/ DigitVal(sig[1]) = 2 /\ DigitsValue(Tail(sig)) <= I32Max % 1000000000
       THEN Some(DigitVal(sig[1]) * 1000000000 + DigitsValue(Tail(sig)))
       ELSE None

\* A variant of ReadWave that reports wave 0 for a text without the pattern.
ReadWaveZeroOnMiss(text, use_tab) ==
    LET caps == IF use_tab THEN TabCapture(text) ELSE HudCapture(text)
    IN IF caps.some THEN ParseI32(caps.val) ELSE Some(0)

\* lines 272-297: the wave number read from the text, if any.
ReadWave(text, use_tab) ==
    IF text = <<>> THEN None
    ELSE LET caps == IF use_tab THEN TabCapture(text) ELSE HudCapture(text)
         IN IF caps.some THEN ParseI32(caps.val) ELSE None

\* A variant of RecognizeWaveStatus that returns on an empty text as soon as
\* it was read.
RecognizeWaveStatusEarlyReturn(a, text, use_tab) ==
    LET before == IF use_tab THEN AddCall(a, "key_down", "tab", KeyTab) ELSE a
        read == [before EXCEPT !.calls = Append(@, Call("ocr", "rect", 0, TRUE)),
                               !.text = text]
        up == AddCall(read, "key_up", "all", 0)
        after == IF use_tab /\ text # <<>>
                 THEN AddCall(AddCall(up, "key_down", "tab", KeyTab), "key_up", "all", 0)
                 ELSE read
    IN [after EXCEPT !.status = ReadWave(text, use_tab)]

\* lines 239-298, text being what ocr_area returns for the rectangle: with
\* use_tab the key is held around the read, then pressed and released once
\* more, before the text is looked at.  calls gets the key events and the
\* read, in order; status is the value returned.
RecognizeWaveStatus(a, text, use_tab) ==
    LET before == IF use_tab THEN AddCall(a, "key_down", "tab", KeyTab) ELSE a
        read == [before EXCEPT !.calls = Append(@, Call("ocr", "rect", 0, TRUE)),
                               !.text = text]
        up == AddCall(read, "key_up", "all", 0)
        after == IF use_tab
                 THEN AddCall(AddCall(up, "key_down", "tab", KeyTab), "key_up", "all", 0)
                 ELSE read
    IN [after EXCEPT !.status = ReadWave(text, use_tab)]

\* The texts of the two displays for wave w < 10, and texts with no wave.
TabText(w) == <<Digits[w + 1], "/", "1", "0", "bo", "ci">>
HudText(w) == <<"bo", "ci", " ", Digits[w + 1]>>
NoWaveTexts == {<<>>, <<"x">>, <<"2", "bo", "ci">>, <<"bo", "ci", " ", "2">>,
                <<"2", "/", "\n", "bo", "ci">>}

(***************************************************************************)
(* SpecOcr: recognize_wave_status called once, in either mode, on every    *)
(* text of at most MaxTextLen characters of OcrChars.                      *)
(***************************************************************************)
OcrChars == {"0", "2", "/", "bo", "ci", " ", "x", "\n"}
OcrTexts == UNION {[1..n -> OcrChars] : n \in 0..MaxTextLen}

ReadWaveCall ==
    /\ app.pc = "ocr"
    /\ app' = [RecognizeWaveStatus(app, app.args[1], app.args[2]) EXCEPT !.pc = "returned"]
    /\ UNCHANGED <<scenes, fp, ms, nav, now, dev, thr>>

InitOcr ==
    /\ scenes = SceneTable(<<>>, AndLogic, OneTextAnchor)
    /\ fp = FpIdle
    /\ ms = MsIdle
    /\ nav = NavOff
    /\ \E text \in OcrTexts, use_tab \in BOOLEAN, ok \in BOOLEAN :
          app = [AppNew EXCEPT !.pc = "ocr", !.args = <<text, use_tab>>, !.driver_ok = ok]
    /\ now = 0
    /\ dev = DevIdle
    /\ thr = ThrOff

NextOcr == ReadWaveCall

SpecOcr == InitOcr /\ [][NextOcr]_vars

(***************************************************************************)
(* SpecRun: the monitoring loop of run (tower_defense.rs 863-925) on a     *)
(* strategy with tasks in waves 1 and 2, from the state run reaches at     *)
(* line 863: the battle has started, the view is set up.  A step is one    *)
(* cycle of the loop and app.calls the input actions of that cycle.        *)
(***************************************************************************)
RunCycleTimes == {11100, 60000}     \* ms from one cycle to the next
RunTexts == {TabText(w) : w \in 0..MaxDetect} \cup NoWaveTexts
NoWaveLimit == 3                    \* line 917

RunBuildings == <<BuildingExport(1, <<"a">>, 8, 1, FALSE), BuildingExport(2, <<"b">>, 15, 2, FALSE)>>
RunDemolishes == <<DemolishEvent(1, <<"a">>, 5, 2, FALSE)>>
RunUpgrades == <<UpgradeEvent(<<"a">>, 1, TRUE), UpgradeEvent(<<"a">>, 2, TRUE)>>


\* A variant of NoWaveDetected that leaves the loop at the second miss in
\* a row.
NoWaveDetectedAtTwo(a) ==
    LET n == AddCall(AddCall(AddCall([a EXCEPT !.no_wave_count = @ + 1],
                                     "key", "esc", 100), "key", " ", 0),
                     "key", "esc", 100)
    IN IF n.no_wave_count >= NoWaveLimit - 1 THEN [n EXCEPT !.pc = "returned"] ELSE n

\* lines 884-921: no wave was read; skip a result screen, and leave the
\* loop at the third miss in a row.
NoWaveDetected(a) ==
    LET n == AddCall(AddCall(AddCall([a EXCEPT !.no_wave_count = @ + 1],
                                     "key", "esc", 100), "key", " ", 0),
                     "key", "esc", 100)
    IN IF n.no_wave_count >= NoWaveLimit THEN [n EXCEPT !.pc = "returned"] ELSE n

\* executed is the set of the <<wave, is_late>> pairs execute_wave_phase was
\* called with so far in the run.
NotePhases(a) ==
    [a EXCEPT !.executed = @ \cup {<<a.phases[k].wave, a.phases[k].is_late>> :
                                      k \in 1..Len(a.phases)}]

\* One cycle of the loop, lines 866-923, and the sleep that ends it (924):
\* status is the wave status read, the validation is made at time now.
RunCycle ==
    /\ app.pc = "run" /\ ~app.panicked
    /\ app.cycles < MaxCycles
    /\ \E text \in RunTexts :
       \E r \in {RecognizeWaveStatus([app EXCEPT !.calls = <<>>, !.regions = <<>>,
                                                 !.batches = <<>>, !.phases = <<>>,
                                                 !.cycles = @ + 1],
                                      text, TRUE)} :
          IF r.status.some
          THEN \E v \in {ValidateWaveTransition([r EXCEPT !.no_wave_count = 0],
                                                r.status.val, now)} :
                  IF ~v.ret THEN app' = v
                  ELSE \E early \in {ExecuteWavePhase(v, r.status.val, FALSE)} :
                          IF early.panicked THEN app' = NotePhases(early)
                          ELSE app' = NotePhases(
                                         ExecuteWavePhase(AddCall(early, "key", "g", 0),
                                                          r.status.val, TRUE))
          ELSE app' = NoWaveDetected(r)
    /\ \E d \in RunCycleTimes : now' = now + d
    /\ UNCHANGED <<scenes, fp, ms, nav, dev, thr>>

InitRun ==
    /\ scenes = SceneTable(<<>>, AndLogic, OneTextAnchor)
    /\ fp = FpIdle
    /\ ms = MsIdle
    /\ nav = NavOff
    /\ \E env \in {<<TRUE, TRUE>>, <<TRUE, FALSE>>, <<FALSE, TRUE>>} :
          app = LoadStrategy([AppNew EXCEPT !.pc = "run",
                                 !.map_meta = IF env[1] THEN Some(MapMeta(PhaseBottom))
                                              ELSE None,
                                 !.driver_ok = env[2]],
                             RunBuildings, RunDemolishes, RunUpgrades)
    /\ now = 0
    /\ dev = DevIdle
    /\ thr = ThrOff

NextRun == RunCycle

SpecRun == InitRun /\ [][NextRun]_vars

\* C11: a cycle whose detection validate_wave_transition rejected leaves
\* last_confirmed_wave, the confirmation time, the three completion sets
\* and the camera offset as they were, dispatches no task, moves no camera
\* and does not press the start key.
C11_RejectedDetectionIgnored ==
    [][(app'.status.some /\ ~app'.ret) =>
          /\ app'.last_confirmed_wave = app.last_confirmed_wave
          /\ app'.last_wave_change_time = app.last_wave_change_time
          /\ app'.placed_uids = app.placed_uids
          /\ app'.completed_demolish_uids = app.completed_demolish_uids
          /\ app'.completed_upgrade_keys = app.completed_upgrade_keys
          /\ app'.camera_offset_y = app.camera_offset_y
          /\ \A i \in 1..Len(app'.calls) :
                /\ ~IsDispatch(app'.calls[i])
                /\ app'.calls[i].op \notin {"align", "scroll"}
                /\ app'.calls[i].id # "g"]_vars

\* Wave 2, which has tasks, detected before the cooldown of wave 1 is over
\* and rejected.
C11_Witness ==
    /\ app.status = Some(2) /\ ~app.ret /\ app.last_confirmed_wave = 1
    /\ now - app.last_wave_change_time < 60000 + 11100
    /\ app.placed_uids = {1} /\ app.completed_demolish_uids = {}
    /\ Len(app.calls) = 5



\* C31: in a level run last_confirmed_wave grows by exactly 1 at every
\* acceptance, from 0, and changes in no other way; the cycle that accepts
\* wave w calls execute_wave_phase(w, early), sends the start key, then calls
\* execute_wave_phase(w, late), no other cycle calls execute_wave_phase or
\* sends the start key, and no <<wave, phase>> pair is executed a second
\* time in the run (stated for the runs whose terrain was loaded).
C31_WavesInOrderPhasesOnce ==
    [][(app.pc = "run" /\ app.map_meta.some) =>
          LET accepted == app'.last_confirmed_wave # app.last_confirmed_wave
              w == app'.last_confirmed_wave
              start_keys == {i \in 1..Len(app'.calls) :
                                app'.calls[i].op = "key" /\ app'.calls[i].id = "g"}
          IN /\ accepted => w = app.last_confirmed_wave + 1
             /\ accepted <=> (app'.status.some /\ app'.ret)
             /\ ~accepted => app'.phases = <<>> /\ start_keys = {}
             /\ accepted =>
                   /\ Len(app'.phases) = 2
                   /\ app'.phases[1].wave = w /\ ~app'.phases[1].is_late
                   /\ app'.phases[2].wave = w /\ app'.phases[2].is_late
                   /\ start_keys = {app'.phases[2].at}
                   /\ app'.phases[1].at < app'.phases[2].at
                   /\ <<w, FALSE>> \notin app.executed
                   /\ <<w, TRUE>> \notin app.executed]_vars

\* Wave 2 accepted after wave 1: both phases of both waves were executed.
C31_Witness ==
    /\ app.pc = "run" /\ app.map_meta.some /\ app.last_confirmed_wave = 2
    /\ app.executed = {1, 2} \X BOOLEAN
    /\ Len(app.phases) = 2 /\ app.phases[2].wave = 2

(***************************************************************************)
(* SpecReadWave: the monitoring loop of SpecRun together with the single   *)
(* calls of SpecOcr, for the claims that relate the text read to what a    *)
(* monitoring cycle does.                                                  *)
(***************************************************************************)
InitReadWave == InitRun \/ InitOcr

NextReadWave == RunCycle \/ ReadWaveCall

SpecReadWave == InitReadWave /\ [][NextReadWave]_vars

\* The text holds the wave pattern of the mode: in the overlay, a digit, a
\* character of the class, and the wave word later on the line; on the HUD,
\* the wave word, white space if any, and a digit.
HasWavePattern(text, use_tab) ==
    IF use_tab
    THEN \E i \in 1..(Len(text) - 1) :
            /\ IsDigit(text[i]) /\ IsClass(text[i + 1])
            /\ \E q \in (i + 2)..(Len(text) - 1) :
                  /\ WaveWordAt(text, q)
                  /\ \A j \in (i + 2)..(q - 1) : text[j] # "\n"
    ELSE \E q \in 1..(Len(text) - 1) :
            /\ WaveWordAt(text, q)
            /\ \E p \in (q + 2)..Len(text) :
                  /\ IsDigit(text[p])
                  /\ \A j \in (q + 2)..(p - 1) : IsSpace(text[j])

\* C22: when the text read is empty or does not hold the wave pattern of
\* the mode, recognize_wave_status returns none, and the step (a single
\* call, or a monitoring cycle) leaves last_confirmed_wave, the confirmation
\* time and the three completion sets as they were and dispatches no task.
C22_MissCarriesNoInformation ==
    [][(~HasWavePattern(app'.text, IF app.pc = "ocr" THEN app.args[2] ELSE TRUE)) =>
          /\ app'.status = None
          /\ app'.last_confirmed_wave = app.last_confirmed_wave
          /\ app'.last_wave_change_time = app.last_wave_change_time
          /\ app'.placed_uids = app.placed_uids
          /\ app'.completed_demolish_uids = app.completed_demolish_uids
          /\ app'.completed_upgrade_keys = app.completed_upgrade_keys
          /\ \A i \in 1..Len(app'.calls) : ~IsDispatch(app'.calls[i])]_vars

\* A monitoring cycle that read a text without the pattern after wave 1 was
\* confirmed and its building placed.
C22_Witness ==
    /\ app.pc = "run" /\ app.text = <<"2", "bo", "ci">> /\ app.status = None
    /\ app.last_confirmed_wave = 1 /\ app.placed_uids = {1}
    /\ app.no_wave_count = 1

\* The key events and the read of the last call of recognize_wave_status.
ReadEvents == [i \in 1..Len(app.calls) |-> <<app.calls[i].op, app.calls[i].id>>]

\* C30: with the overlay, the events of recognize_wave_status are key down,
\* the OCR read, key up, key down, key up, whatever the text read, and no
\* key is down when it returns; without the overlay it sends no key event
\* (stated for the runs whose driver lock works).
C30_OverlayKeySequence ==
    (app.pc = "returned" /\ app.driver_ok /\ Len(app.args) = 2) =>
        /\ app.args[2] =>
              ReadEvents = <<<<"key_down", "tab">>, <<"ocr", "rect">>, <<"key_up", "all">>,
                             <<"key_down", "tab">>, <<"key_up", "all">>>>
        /\ ~app.args[2] => ReadEvents = <<<<"ocr", "rect">>>>
        /\ \A i \in 1..Len(app.calls) : app.calls[i].sent
        /\ app.calls[Len(app.calls)].op # "key_down"

\* A call with the overlay that read an empty text.
C30_Witness ==
    /\ app.pc = "returned" /\ app.driver_ok
    /\ app.args = <<<<>>, TRUE>> /\ app.status = None
    /\ Len(app.calls) = 5

\* the keys of the calls a cycle made through key_click or as ESC
KeysOf(calls) ==
    LET keys == SelectSeq(calls, LAMBDA c : c.op = "key")
    IN [k \in 1..Len(keys) |-> keys[k].id]

FrameSettle == 4        \* ms slept by send_raw after the write
HeartbeatPeriod == 1000
EscHold == 100
EscGap == 300
SpaceSettle == 500
KeyHoldTimes == {20, 35, 1500, 2500}    \* ms, key_hold and key_click
ClickHoldTimes == {30, 50}              \* ms, click_humanly
MoveInterval == 12                      \* ms between two steps of a move

Ins(op, arg) == [op |-> op, arg |-> arg]

\* heartbeat thread body, main.rs 59-64
HeartbeatLoop == <<Ins("lock", 0), Ins("send", "heartbeat"), Ins("unlock", 0),
                   Ins("sleep", HeartbeatPeriod)>>

\* human.rs 42-57
KeyHold(hold_time) == <<Ins("lock", 0), Ins("send", "key_down"), Ins("unlock", 0),
                 Ins("sleep", hold_time),
                 Ins("lock", 0), Ins("send", "key_up"), Ins("unlock", 0)>>

\* human.rs 130-140
ClickHumanly(sleep_time) ==
    <<Ins("lock", 0), Ins("send", "mouse_down"), Ins("sleep", sleep_time),
      Ins("send", "mouse_up"), Ins("unlock", 0)>>

\* one step of move_to_humanly, human.rs 118-121
MoveStep == <<Ins("lock", 0), Ins("send", "mouse_abs"), Ins("unlock", 0),
              Ins("sleep", MoveInterval)>>

\* tower_defense.rs 895-913
SkipResultScreen ==
    <<Ins("lock", 0), Ins("send", "key_down"), Ins("sleep", EscHold),
      Ins("send", "key_up"), Ins("sleep", EscGap), Ins("unlock", 0)>>
    \o KeyHold(35)
    \o <<Ins("sleep", SpaceSettle),
         Ins("lock", 0), Ins("send", "key_down"), Ins("sleep", EscHold),
         Ins("send", "key_up"), Ins("unlock", 0)>>

MainActions == {KeyHold(h) : h \in KeyHoldTimes}
               \cup {ClickHumanly(h) : h \in ClickHoldTimes}
               \cup {MoveStep, SkipResultScreen}

Thread(prog) == [prog |-> prog, pc |-> 1]

Current(t) == thr[t].prog[thr[t].pc]

At(t, op) == thr[t].pc <= Len(thr[t].prog) /\ Current(t).op = op

Advance(t) == thr' = [thr EXCEPT ![t].pc = @ + 1]

IsDown(kind) == kind \in {"key_down", "mouse_down"}

IsUp(kind) == kind \in {"key_up", "mouse_up"}

DevNew == [holder |-> "none", writing |-> "none", torn |-> FALSE,
           pressed |-> FALSE, idle_sleep |-> 0, driver |-> "none"]

\* Mutex::lock
Lock(t) ==
    /\ At(t, "lock")
    /\ dev.holder = "none"
    /\ dev' = [dev EXCEPT !.holder = t, !.pressed = FALSE, !.idle_sleep = 0]
    /\ Advance(t)
    /\ UNCHANGED <<scenes, fp, ms, nav, app, now>>

\* the guard goes out of scope
Unlock(t) ==
    /\ At(t, "unlock")
    /\ dev' = [dev EXCEPT !.holder = "none"]
    /\ Advance(t)
    /\ UNCHANGED <<scenes, fp, ms, nav, app, now>>

\* send_raw up to the start of write_all, lib.rs 47-55
FrameBegin(t) ==
    /\ At(t, "send")
    /\ dev.writing # t
    /\ dev' = [dev EXCEPT !.writing = t, !.torn = @ \/ dev.writing # "none"]
    /\ UNCHANGED <<scenes, fp, ms, nav, app, now, thr>>

\* the rest of send_raw, lib.rs 55-58: the frame is out, then 4 ms of sleep
FrameEnd(t) ==
    /\ At(t, "send")
    /\ dev.writing = t
    /\ LET pressed == IF IsDown(Current(t).arg) THEN TRUE
                      ELSE IF IsUp(Current(t).arg) THEN FALSE ELSE dev.pressed
       IN dev' = [dev EXCEPT !.writing = "none", !.pressed = pressed,
                             !.idle_sleep = IF pressed THEN @ ELSE Max(@, FrameSettle)]
    /\ Advance(t)
    /\ UNCHANGED <<scenes, fp, ms, nav, app, now>>

\* thread::sleep; a sleep of the thread that holds the mutex while no key
\* or button is down is recorded.
Sleep(t) ==
    /\ At(t, "sleep")
    /\ dev' = IF dev.holder = t /\ ~dev.pressed
              THEN [dev EXCEPT !.idle_sleep = Max(@, Current(t).arg)]
              ELSE dev
    /\ Advance(t)
    /\ UNCHANGED <<scenes, fp, ms, nav, app, now>>

\* the main pipeline begins its next input action
MainStart ==
    /\ thr.main.pc > Len(thr.main.prog)
    /\ \E prog \in MainActions : thr' = [thr EXCEPT !.main = Thread(prog)]
    /\ UNCHANGED <<scenes, fp, ms, nav, app, now, dev>>

\* `loop` of the heartbeat thread
HeartbeatAgain ==
    /\ thr.hb.pc > Len(thr.hb.prog)
    /\ thr' = [thr EXCEPT !.hb = Thread(HeartbeatLoop)]
    /\ UNCHANGED <<scenes, fp, ms, nav, app, now, dev>>

InitDevice ==
    /\ scenes = SceneTable(<<>>, AndLogic, OneTextAnchor)
    /\ fp = FpIdle
    /\ ms = MsIdle
    /\ nav = NavOff
    /\ app = AppNew
    /\ now = 0
    /\ dev = DevNew
    /\ thr = [main |-> Thread(<<>>), hb |-> Thread(HeartbeatLoop)]

NextDevice ==
    \/ MainStart
    \/ HeartbeatAgain
    \/ \E t \in {"main", "hb"} : Lock(t)
    \/ \E t \in {"main", "hb"} : Unlock(t)
    \/ \E t \in {"main", "hb"} : FrameBegin(t)
    \/ \E t \in {"main", "hb"} : FrameEnd(t)
    \/ \E t \in {"main", "hb"} : Sleep(t)

SpecDevice == InitDevice /\ [][NextDevice]_vars

\* Frames of the two threads never overlap: a frame is written only by the
\* thread that holds the mutex.
FramesNeverInterleave ==
    /\ ~dev.torn
    /\ dev.writing # "none" => dev.holder = dev.writing

\* C19: frames of the keep-alive thread and of the main pipeline never
\* interleave, and no thread sleeps while it holds the device mutex, other
\* than the hold of the key or button it has down and the settle time of a
\* frame.
C19_LockHeldOnlyForOneAction ==
    /\ FramesNeverInterleave
    /\ dev.idle_sleep <= FrameSettle

(***************************************************************************)
(* SpecMain: the top-level loop of main (main.rs 91-160).  navigate and    *)
(* the level run are calls that may or may not come back; the run of the   *)
(* tower-defence module can also panic (tower_defense.rs 413).             *)
(***************************************************************************)
KeyEsc == 41            \* 0x29
KeySpace == 44          \* 0x2C
LevelDelay == 5000
FailedBackoff == 3000
SuccessDelay == 5000

HandoverScenes == {"A", "B", "C"}
HandlerOpts == {None, Some("daily"), Some("td"), Some("boss")}

NavResults == {[kind |-> "Handover", id |-> s, handler |-> h] :
                  s \in HandoverScenes, h \in HandlerOpts}
              \cup {[kind |-> "Failed", id |-> "", handler |-> None],
                    [kind |-> "Success", id |-> "", handler |-> None]}

\* A character is its Unicode scalar value.
EscChar == 27           \* '\u{1B}', main.rs 131
SpaceChar == 32
KeyA == 4               \* 0x04
Key1 == 30              \* 0x1E
Key0 == 39              \* 0x27

\* `as u8` of an integer, and the wrapping u8 result of an operation
U8(x) == x % 256

\* char::to_ascii_lowercase
ToAsciiLowercase(c) == IF 65 <= c /\ c <= 90 THEN c + 32 ELSE c

\* human.rs 30-38
CharToKeycode(ch) ==
    LET l == ToAsciiLowercase(ch)
    IN IF 97 <= l /\ l <= 122 THEN U8(l) - 97 + KeyA
       ELSE IF 49 <= l /\ l <= 57 THEN U8(ch) - 49 + Key1
       ELSE IF l = 48 THEN Key0
       ELSE IF l = SpaceChar THEN KeySpace
       ELSE 0

\* keycodes sent by lines 130-149: key_hold of a character without keycode
\* sends nothing, then ESC and the space bar are pressed and released.
ResetKeySequence ==
    (IF CharToKeycode(EscChar) # 0 THEN <<CharToKeycode(EscChar)>> ELSE <<>>)
    \o <<KeyEsc, KeySpace>>

MainNew == [pc |-> "loop", result |-> [kind |-> "", id |-> "", handler |-> None],
            keys |-> <<>>, delay |-> 0, navigations |-> 0, seen |-> {}]

MainAt(pc) == thr.main.pc = pc

\* line 94: engine.navigate(&args.target) is called
CallNavigate ==
    /\ MainAt("loop")
    /\ thr' = [thr EXCEPT !.main.pc = "navigate", !.main.keys = <<>>,
                          !.main.delay = 0,
                          !.main.navigations = Min(@ + 1, MaxNavigations)]
    /\ UNCHANGED <<scenes, fp, ms, nav, app, now, dev>>

\* navigate returns; line 96
NavigateReturns ==
    /\ MainAt("navigate")
    /\ \E r \in NavResults :
          thr' = [thr EXCEPT !.main.result = r, !.main.seen = @ \cup {r.kind},
                             !.main.pc = IF r.kind = "Handover" THEN "handover"
                                         ELSE IF r.kind = "Failed" THEN "failed"
                                         ELSE "success"]
    /\ UNCHANGED <<scenes, fp, ms, nav, app, now, dev>>

\* lines 100-120: the handler is chosen and its run is called
RouteHandler ==
    /\ MainAt("handover")
    /\ LET handler_opt == thr.main.result.handler
           handler_key == IF handler_opt.some THEN handler_opt.val ELSE "td"
       IN thr' = [thr EXCEPT !.main.pc = IF handler_key = "daily" THEN "daily_run"
                                         ELSE "td_run"]
    /\ UNCHANGED <<scenes, fp, ms, nav, app, now, dev>>

\* app.run() or td_app.run(..) returns; line 123
LevelRunReturns ==
    /\ MainAt("daily_run") \/ MainAt("td_run")
    /\ thr' = [thr EXCEPT !.main.pc = "level_done"]
    /\ UNCHANGED <<scenes, fp, ms, nav, app, now, dev>>

\* td_app.run(..) panics in dispatch_tasks_by_region
TdRunPanics ==
    /\ MainAt("td_run")
    /\ thr' = [thr EXCEPT !.main.pc = "panicked"]
    /\ UNCHANGED <<scenes, fp, ms, nav, app, now, dev>>

\* line 124
SleepAfterLevel ==
    /\ MainAt("level_done")
    /\ thr' = [thr EXCEPT !.main.pc = "loop", !.main.delay = LevelDelay]
    /\ UNCHANGED <<scenes, fp, ms, nav, app, now, dev>>

\* lines 130-149
ResetKeys ==
    /\ MainAt("failed")
    /\ thr' = [thr EXCEPT !.main.pc = "backoff", !.main.keys = ResetKeySequence]
    /\ UNCHANGED <<scenes, fp, ms, nav, app, now, dev>>

\* A variant of FailedBackoffSleep in which a failed navigation ends the loop.
FailedBackoffExit ==
    /\ MainAt("backoff")
    /\ thr' = [thr EXCEPT !.main.pc = "exited", !.main.delay = FailedBackoff]
    /\ UNCHANGED <<scenes, fp, ms, nav, app, now, dev>>

\* line 152
FailedBackoffSleep ==
    /\ MainAt("backoff")
    /\ thr' = [thr EXCEPT !.main.pc = "loop", !.main.delay = FailedBackoff]
    /\ UNCHANGED <<scenes, fp, ms, nav, app, now, dev>>

\* line 157
SleepAfterSuccess ==
    /\ MainAt("success")
    /\ thr' = [thr EXCEPT !.main.pc = "loop", !.main.delay = SuccessDelay]
    /\ UNCHANGED <<scenes, fp, ms, nav, app, now, dev>>

InitMain ==
    /\ scenes = SceneTable(<<>>, AndLogic, OneTextAnchor)
    /\ fp = FpIdle
    /\ ms = MsIdle
    /\ nav = NavOff
    /\ app = AppNew
    /\ now = 0
    /\ dev = DevIdle
    /\ thr = [main |-> MainNew, hb |-> "off"]

\* the statements of the loop itself
MainStep ==
    \/ CallNavigate
    \/ RouteHandler
    \/ SleepAfterLevel
    \/ ResetKeys
    \/ FailedBackoffSleep
    \/ SleepAfterSuccess

NextMain ==
    \/ MainStep
    \/ NavigateReturns
    \/ LevelRunReturns
    \/ TdRunPanics

SpecMain == InitMain /\ [][NextMain]_vars

\* The main thread is scheduled and its sleeps end; nothing is assumed of
\* the calls to navigate and to the level run.
FairSpecMain == SpecMain /\ WF_vars(MainStep)

EveryCallReturns ==
    /\ [](MainAt("navigate") => <>~MainAt("navigate"))
    /\ [](MainAt("daily_run") \/ MainAt("td_run") => <>MainAt("level_done"))

\* C20: after Failed the loop sends the reset keys, sleeps the backoff and
\* calls navigate again; after Success, and after a Handover whose run has
\* returned, it sleeps the fixed delay and calls navigate again; when every
\* call of navigate and every level run returns, navigate is called again
\* and again for ever.
C20_LoopAlwaysCallsNavigateAgain ==
    /\ [][/\ MainAt("failed") =>
                thr'.main.pc = "backoff" /\ thr'.main.keys = <<KeyEsc, KeySpace>>
          /\ MainAt("backoff") =>
                thr'.main.pc = "loop" /\ thr'.main.delay = FailedBackoff
          /\ MainAt("success") =>
                thr'.main.pc = "loop" /\ thr'.main.delay = SuccessDelay
          /\ MainAt("level_done") =>
                thr'.main.pc = "loop" /\ thr'.main.delay = LevelDelay
          /\ MainAt("loop") => thr'.main.pc = "navigate"]_vars
    /\ EveryCallReturns => []<>MainAt("navigate")

\* navigate is being called once more after it has returned each of the
\* three kinds of result.
C20_Witness ==
    /\ MainAt("navigate")
    /\ thr.main.seen = {"Handover", "Failed", "Success"}
    /\ thr.main.navigations >= 3

(***************************************************************************)
(* SpecWaits: the three loops that wait for the screen.  The confirmation  *)
(* wait of navigate (nav.rs 291-303) runs on a one-step path from A to B;  *)
(* the level run (tower_defense.rs 848-925) waits for the combat to start  *)
(* and then monitors the waves, with an empty strategy; it is started     *)
(* here once navigate has returned.  What the screen shows at each read   *)
(* is free.                                                                *)
(***************************************************************************)
CombatPollSleep == 1000
MonitorSleep == 10000

WaitPath(k) == <<Transition("A", k, "B")>>

\* one read of the loop of lines 849-857
CombatRead ==
    /\ app.pc = "combat_read"
    /\ \E text \in {<<>>, HudText(0), HudText(1)} :
       \E r \in {RecognizeWaveStatus([app EXCEPT !.calls = <<>>], text, FALSE)} :
          app' = IF r.status.some /\ r.status.val > 0
                 THEN [r EXCEPT !.pc = "monitor_read", !.last_wave_change_time = now]
                 ELSE [r EXCEPT !.pc = "combat_sleep"]
    /\ UNCHANGED <<scenes, fp, ms, nav, now, dev, thr>>

\* line 857
CombatSleep ==
    /\ app.pc = "combat_sleep"
    /\ app' = [app EXCEPT !.pc = "combat_read"]
    /\ now' = Min(now + CombatPollSleep, MaxClock)
    /\ UNCHANGED <<scenes, fp, ms, nav, dev, thr>>

\* lines 866-922: one pass of the monitoring loop up to its sleep
MonitorRead ==
    /\ app.pc = "monitor_read"
    /\ \E text \in RunTexts :
       \E r \in {RecognizeWaveStatus([app EXCEPT !.calls = <<>>, !.regions = <<>>,
                                                 !.batches = <<>>, !.phases = <<>>],
                                      text, TRUE)} :
          IF r.status.some
          THEN \E v \in {ValidateWaveTransition([r EXCEPT !.no_wave_count = 0],
                                                r.status.val, now)} :
                  IF ~v.ret THEN app' = [v EXCEPT !.pc = "monitor_sleep"]
                  ELSE \E early \in {ExecuteWavePhase(v, r.status.val, FALSE)} :
                          app' = [ExecuteWavePhase(AddCall(early, "key", "g", 0),
                                                   r.status.val, TRUE)
                                  EXCEPT !.pc = "monitor_sleep"]
          ELSE \E n \in {NoWaveDetected([r EXCEPT !.pc = "monitor_sleep"])} :
                  app' = n
    /\ UNCHANGED <<scenes, fp, ms, nav, now, dev, thr>>

\* line 924
MonitorSleeps ==
    /\ app.pc = "monitor_sleep"
    /\ app' = [app EXCEPT !.pc = "monitor_read"]
    /\ now' = Min(now + MonitorSleep, MaxClock)
    /\ UNCHANGED <<scenes, fp, ms, nav, dev, thr>>

\* navigate has returned and run is called (main.rs 94-119)
LevelRunStarts ==
    /\ nav.pc = "done" /\ app.pc = "off"
    /\ nav' = NavIdle
    /\ app' = [AppNew EXCEPT !.pc = "combat_read"]
    /\ UNCHANGED <<scenes, fp, ms, now, dev, thr>>

InitWaits ==
    /\ scenes = SceneTable(<<<<"A", "B">>>>, AndLogic, OneTextAnchor)
    /\ fp = FpIdle
    /\ ms = MsIdle
    /\ \E k \in {1, 2} :
          nav = NavigateStep(scenes, [NavIdle EXCEPT !.pc = "exec", !.target_id = "B",
                                                     !.start_id = Some("A"),
                                                     !.path = WaitPath(k), !.i = 1])
    /\ app = AppOff
    /\ now = 0
    /\ dev = DevIdle
    /\ thr = ThrOff

NextWaits ==
    \/ NavPoll \/ NavTimeout \/ NavStep
    \/ LevelRunStarts
    \/ CombatRead \/ CombatSleep
    \/ MonitorRead \/ MonitorSleeps

SpecWaits == InitWaits /\ [][NextWaits]_vars

\* The thread keeps running and its sleeps end; nothing is assumed of the
\* screen.
FairSpecWaits == SpecWaits /\ WF_vars(NextWaits)

\* C21: each wait ends, whatever the screen shows: the confirmation wait of
\* navigate, the wait for the combat to start and the monitoring loop.
C21_EveryWaitEnds ==
    /\ nav.pc = "wait" ~> nav.pc # "wait"
    /\ app.pc \in {"combat_read", "combat_sleep"} ~> app.pc = "monitor_read"
    /\ app.pc \in {"monitor_read", "monitor_sleep"} ~> app.pc = "returned"

(***************************************************************************)
(* SpecRuns: level runs one after the other, as the loop of main starts    *)
(* them (main.rs 109-119): each Handover to the td handler makes a new     *)
(* TowerDefenseApp, whose run loads the files and monitors the waves until *)
(* it returns.  thr.main.navigations counts the runs started; run k starts *)
(* at the time k * RunSpacing, when the run before it has ended.           *)
(***************************************************************************)
\* A variant of TdRunStarts that keeps the scheduler of the run before.
TdRunStartsReused ==
    /\ MainAt("loop") /\ thr.main.navigations < MaxNavigations
    /\ now' = RunSpacing * (thr.main.navigations + 1)
    /\ \E env \in {<<TRUE, TRUE>>, <<TRUE, FALSE>>, <<FALSE, TRUE>>} :
          app' = LoadStrategy([(IF app.pc = "off" THEN AppNew ELSE app)
                                 EXCEPT !.pc = "run", !.cycles = 0, !.no_wave_count = 0,
                                 !.map_meta = IF env[1] THEN Some(MapMeta(PhaseBottom))
                                              ELSE None,
                                 !.driver_ok = env[2],
                                 !.last_wave_change_time = now'],
                              RunBuildings, RunDemolishes, RunUpgrades)
    /\ thr' = [thr EXCEPT !.main.pc = "td_run", !.main.navigations = @ + 1]
    /\ UNCHANGED <<scenes, fp, ms, nav, dev>>

\* main.rs 109-119 with TowerDefenseApp::new (200-219) and run up to the
\* monitoring loop (812-863): the files load or fail to, the battle starts.
TdRunStarts ==
    /\ MainAt("loop") /\ thr.main.navigations < MaxNavigations
    /\ now' = RunSpacing * (thr.main.navigations + 1)
    /\ \E env \in {<<TRUE, TRUE>>, <<TRUE, FALSE>>, <<FALSE, TRUE>>} :
          app' = LoadStrategy([AppNew EXCEPT !.pc = "run",
                                 !.map_meta = IF env[1] THEN Some(MapMeta(PhaseBottom))
                                              ELSE None,
                                 !.driver_ok = env[2],
                                 !.last_wave_change_time = now'],
                              RunBuildings, RunDemolishes, RunUpgrades)
    /\ thr' = [thr EXCEPT !.main.pc = "td_run", !.main.navigations = @ + 1]
    /\ UNCHANGED <<scenes, fp, ms, nav, dev>>

\* run returns (tower_defense.rs 920) and main goes round its loop.
TdRunReturns ==
    /\ MainAt("td_run") /\ app.pc = "returned"
    /\ thr' = [thr EXCEPT !.main.pc = "loop"]
    /\ UNCHANGED <<scenes, fp, ms, nav, app, now, dev>>

InitRuns ==
    /\ scenes = SceneTable(<<>>, AndLogic, OneTextAnchor)
    /\ fp = FpIdle
    /\ ms = MsIdle
    /\ nav = NavOff
    /\ app = AppOff
    /\ now = 0
    /\ dev = DevIdle
    /\ thr = [main |-> MainNew, hb |-> "off"]

NextRuns == TdRunStarts \/ RunCycle \/ TdRunReturns

SpecRuns == InitRuns /\ [][NextRuns]_vars

\* The ids of the calls of kind op among calls.
IdsOf(calls, op) == {calls[i].id : i \in {k \in 1..Len(calls) : calls[k].op = op}}

\* C32: every Handover starts a run whose completion sets are empty, whose
\* offset estimate is 0 and whose last confirmed wave is 0; and in every
\* run the cycle that accepts a wave dispatches every task of the strategy
\* tagged with that wave, whatever the runs before it did (the second part
\* for the runs whose terrain was loaded).
C32_RunStartsFresh ==
    [][/\ (MainAt("loop") /\ thr'.main.pc = "td_run") =>
             /\ app'.placed_uids = {} /\ app'.completed_demolish_uids = {}
             /\ app'.completed_upgrade_keys = {}
             /\ app'.camera_offset_y = 0 /\ app'.last_confirmed_wave = 0
       /\ (/\ MainAt("td_run") /\ app.map_meta.some
           /\ app'.last_confirmed_wave # app.last_confirmed_wave) =>
             LET w == app'.last_confirmed_wave
                 early == TasksTagged(app, <<w, FALSE>>)
                 late == TasksTagged(app, <<w, TRUE>>)
             IN /\ IdsOf(app'.calls, "build") = early.build \cup late.build
                /\ IdsOf(app'.calls, "demolish") = early.demolish \cup late.demolish
                /\ IdsOf(app'.calls, "upgrade") = early.upgrade \cup late.upgrade]_vars

\* The second run has accepted wave 1 and placed its building again.
C32_Witness ==
    /\ MainAt("td_run") /\ thr.main.navigations = 2 /\ app.map_meta.some
    /\ app.last_confirmed_wave = 1 /\ app.placed_uids = {1}
    /\ 1 \in IdsOf(app.calls, "build")

(***************************************************************************)
(* SpecLocks: the two mutexes of the program.  The HumanDriver sits        *)
(* behind one mutex (main.rs 66-70), the input device behind another       *)
(* (main.rs 56); the keep-alive thread takes the device mutex only         *)
(* (main.rs 58-64), the main pipeline takes the HumanDriver mutex and,     *)
(* inside it, the device mutex, directly or through a HumanDriver method.  *)
(* A code path of the main pipeline is a list of instructions as in        *)
(* SpecDevice, with lock_driver and unlock_driver added.                   *)
(***************************************************************************)
MaxPrep == 2                \* preparatory actions of a map
KeyClickTime == 35          \* ms, one of the hold times of key_click
PrepSettle == 500
LoadoutTabSettle == 350
LoadoutSettle == 400
TabOpenSettle == 500
TabGap == 100
ResetGap == 100
PrepWaitTimes == {200}

\* `if let Ok(human) = self.driver.lock() { body }`
WithDriver(body) == <<Ins("lock_driver", 0)>> \o body \o <<Ins("unlock_driver", 0)>>

\* `if let Ok(mut dev) = human.device.lock() { dev.<kind>() }`
DeviceOnce(kind) == <<Ins("lock", 0), Ins("send", kind), Ins("unlock", 0)>>

\* a Wait that keeps the device guard while it sleeps and then locks again
PrepWaitKeepsGuard(wait_ms) == <<Ins("sleep", wait_ms), Ins("lock", 0)>>

\* PrepAction::Wait, tower_defense.rs 721-725
PrepWait(wait_ms) == <<Ins("unlock", 0), Ins("sleep", wait_ms), Ins("lock", 0)>>

PrepKinds == {"KeyDown", "KeyDownUnknown", "KeyUpAll", "Wait", "Log"}

\* one arm of the match, tower_defense.rs 711-729; a key without keycode
\* and a log line send nothing
PrepArm(kind) ==
    IF kind = "KeyDown" THEN <<Ins("send", "key_down")>>
    ELSE IF kind = "KeyUpAll" THEN <<Ins("send", "key_up")>>
    ELSE IF kind = "Wait" THEN PrepWait(CHOOSE w \in PrepWaitTimes : TRUE)
    ELSE <<>>

RECURSIVE PrepArms(_)
PrepArms(actions) ==
    IF actions = <<>> THEN <<>>
    ELSE PrepArm(Head(actions)) \o PrepArms(Tail(actions))

\* tower_defense.rs 750-782, for one trap of the loadout
SelectLoadout ==
    WithDriver(MoveStep \o ClickHumanly(30) \o <<Ins("sleep", LoadoutTabSettle)>>
               \o MoveStep \o ClickHumanly(30))
    \o <<Ins("sleep", LoadoutSettle)>>

\* tower_defense.rs 702-748
ExecutePrepLogic(actions) ==
    (IF actions # <<>>
     THEN WithDriver(<<Ins("lock", 0)>> \o PrepArms(actions)
                     \o <<Ins("send", "key_up"), Ins("unlock", 0)>>)
     ELSE <<>>)
    \o WithDriver(KeyHold(KeyClickTime) \o <<Ins("sleep", PrepSettle)>>)
    \o SelectLoadout
    \o WithDriver(KeyHold(KeyClickTime) \o <<Ins("sleep", PrepSettle)>>)

\* recognize_wave_status with use_tab, tower_defense.rs 241-270
TabOverlay ==
    WithDriver(DeviceOnce("key_down")) \o <<Ins("sleep", TabOpenSettle)>>
    \o WithDriver(DeviceOnce("key_up")) \o <<Ins("sleep", TabOpenSettle)>>
    \o WithDriver(DeviceOnce("key_down")) \o <<Ins("sleep", TabGap)>>
    \o WithDriver(DeviceOnce("key_up"))

\* nav.rs 191-196
PerformClickPath == WithDriver(MoveStep \o ClickHumanly(50))

\* the Failed arm of main, main.rs 130-149; '\u{1B}' has no keycode, so
\* key_hold sends nothing
MainResetPath ==
    WithDriver(DeviceOnce("key_down") \o <<Ins("sleep", ResetGap)>>
               \o DeviceOnce("key_up") \o <<Ins("sleep", ResetGap)>>
               \o DeviceOnce("key_down") \o <<Ins("sleep", ResetGap)>>
               \o DeviceOnce("key_up"))

PrepLists == UNION {[1..n -> PrepKinds] : n \in 0..MaxPrep}

MainPaths ==
    {ExecutePrepLogic(actions) : actions \in PrepLists}
    \cup {WithDriver(prog) : prog \in MainActions}
    \cup {TabOverlay, PerformClickPath, MainResetPath}

\* Mutex::lock on the HumanDriver
LockDriver(t) ==
    /\ At(t, "lock_driver")
    /\ dev.driver = "none"
    /\ dev' = [dev EXCEPT !.driver = t]
    /\ Advance(t)
    /\ UNCHANGED <<scenes, fp, ms, nav, app, now>>

\* the HumanDriver guard goes out of scope
UnlockDriver(t) ==
    /\ At(t, "unlock_driver")
    /\ dev' = [dev EXCEPT !.driver = "none"]
    /\ Advance(t)
    /\ UNCHANGED <<scenes, fp, ms, nav, app, now>>

\* the main pipeline enters its next code path
PathStart ==
    /\ thr.main.pc > Len(thr.main.prog)
    /\ \E prog \in MainPaths : thr' = [thr EXCEPT !.main = Thread(prog)]
    /\ UNCHANGED <<scenes, fp, ms, nav, app, now, dev>>

Threads == {"main", "hb"}

\* what a thread does on its own once it is allowed to
ThreadStep(t) ==
    Unlock(t) \/ UnlockDriver(t) \/ FrameBegin(t) \/ FrameEnd(t) \/ Sleep(t)

NextLocks ==
    \/ PathStart
    \/ HeartbeatAgain
    \/ \E t \in Threads : LockDriver(t)
    \/ \E t \in Threads : UnlockDriver(t)
    \/ \E t \in Threads : Lock(t)
    \/ \E t \in Threads : Unlock(t)
    \/ \E t \in Threads : FrameBegin(t)
    \/ \E t \in Threads : FrameEnd(t)
    \/ \E t \in Threads : Sleep(t)

SpecLocks == InitDevice /\ [][NextLocks]_vars

\* Every thread keeps running, and a thread that waits for a mutex which is
\* free again and again gets it: whoever unlocks wakes the waiter, and the
\* main pipeline sleeps for milliseconds outside the device mutex between
\* two of its acquisitions.
FairSpecLocks ==
    /\ SpecLocks
    /\ WF_vars(PathStart) /\ WF_vars(HeartbeatAgain)
    /\ \A t \in Threads : WF_vars(ThreadStep(t))
    /\ \A t \in Threads : SF_vars(Lock(t)) /\ SF_vars(LockDriver(t))

\* the device mutex is requested by the main pipeline only inside the
\* HumanDriver mutex, and nobody requests the HumanDriver mutex while
\* holding the device mutex
LockOrder ==
    /\ At("main", "lock") => dev.driver = "main"
    /\ dev.holder = "main" => dev.driver = "main"
    /\ \A t \in Threads : At(t, "lock_driver") => dev.holder # t

\* no thread requests a mutex it holds
NoReacquire ==
    \A t \in Threads : /\ At(t, "lock") => dev.holder # t
                       /\ At(t, "lock_driver") => dev.driver # t

\* C34: the main pipeline and the keep-alive thread cannot deadlock and the
\* keep-alive thread is not starved: the HumanDriver mutex is taken before
\* the device mutex, no thread requests a mutex it already holds, whoever
\* holds the device mutex releases it, and under fair scheduling every
\* attempt of the keep-alive thread gets the device mutex; both threads go
\* on for ever.
C34_NoDeadlockNoStarvation ==
    /\ [](LockOrder /\ NoReacquire)
    /\ \A t \in Threads : (dev.holder = t) ~> (dev.holder # t)
    /\ At("hb", "lock") ~> (dev.holder = "hb")
    /\ []<>(dev.holder = "hb")
    /\ []<>(thr.main.pc > Len(thr.main.prog))

\* the main pipeline, back from a Wait of the preparatory actions, waits
\* for the device mutex the keep-alive thread holds
C34_Witness ==
    /\ dev.holder = "hb" /\ dev.driver = "main"
    /\ At("main", "lock") /\ thr.main.pc > 2
    /\ thr.main.prog[thr.main.pc - 1].op = "sleep"
    /\ thr.main.prog[thr.main.pc - 2].op = "unlock"

(***************************************************************************)
(* SpecView: the offset estimate of the camera under any sequence of       *)
(* setup_view, align_camera_to_edge and smart_move_camera (with the fine   *)
(* scroll it makes), on maps shorter than the screen, barely taller and    *)
(* much taller.  calls holds the inputs of the last call only.             *)
(***************************************************************************)
ViewBottoms == {900, 1108, 1200, 1500, 2000}
WheelNotches == 40          \* 4 rounds of 10 mouse_scroll(-120), lines 683-689
SetupHold == 200            \* ms, lines 691-697

\* lines 678-700
SetupView(a) ==
    LET ok == a.driver_ok
        zoom == <<Call("key", "o", 0, ok)>>
                \o [k \in 1..WheelNotches |-> Call("wheel", "down", -120, ok)]
        corner == <<Call("key_hold", "w", SetupHold, ok),
                    Call("key_hold", "a", SetupHold, ok)>>
    IN [a EXCEPT !.calls = @ \o zoom \o corner \o corner \o corner,
                 !.camera_offset_y = 0]

ViewSetup ==
    /\ app.pc = "view"
    /\ app' = SetupView([app EXCEPT !.calls = <<>>])
    /\ UNCHANGED <<scenes, fp, ms, nav, now, dev, thr>>

ViewAlign ==
    /\ app.pc = "view"
    /\ \E top \in BOOLEAN : app' = AlignCameraToEdge([app EXCEPT !.calls = <<>>], top)
    /\ UNCHANGED <<scenes, fp, ms, nav, now, dev, thr>>

ViewSmartMove ==
    /\ app.pc = "view"
    /\ \E t \in TargetRows :
          app' = SmartMoveCamera([app EXCEPT !.calls = <<>>], t)[1]
    /\ UNCHANGED <<scenes, fp, ms, nav, now, dev, thr>>

InitView ==
    /\ scenes = SceneTable(<<>>, AndLogic, OneTextAnchor)
    /\ fp = FpIdle
    /\ ms = MsIdle
    /\ nav = NavOff
    /\ \E bottom \in ViewBottoms : \E ok \in BOOLEAN :
          app = [AppNew EXCEPT !.pc = "view", !.map_meta = Some(MapMeta(bottom)),
                               !.driver_ok = ok]
    /\ now = 0
    /\ dev = DevIdle
    /\ thr = ThrOff

NextView == ViewSetup \/ ViewAlign \/ ViewSmartMove

SpecView == InitView /\ [][NextView]_vars

\* C36: in every reachable state the offset estimate of the camera lies
\* between 0 and max_scroll = max(map height - screen height, 0), after
\* any sequence of setup_view, edge alignments and smart_move_camera calls
\* with their fine scrolls of whole 100 ms units.
C36_OffsetWithinScrollRange ==
    app.pc = "view" =>
        /\ 0 <= app.camera_offset_y
        /\ app.camera_offset_y <= MaxScrollY(app)

\* a fine scroll of the least duration, one unit, up from the bottom edge
\* of a map 120 px taller than the screen; the estimate ends strictly
\* inside the range
C36_Witness ==
    /\ app.pc = "view" /\ MaxScrollY(app) = 120
    /\ Len(app.calls) = 2 /\ app.calls[1].op = "align" /\ app.calls[1].id = "s"
    /\ app.calls[2].op = "scroll" /\ app.calls[2].arg = ScrollRes
    /\ app.camera_offset_y = 90

(***************************************************************************)
(* SpecKeycode: the two character-to-keycode mappings on every character   *)
(* up to MaxChar, past the ASCII range and past one byte.  A u8            *)
(* subtraction or addition that leaves 0..255 panics in a build with       *)
(* overflow checks and wraps in a build without them.                      *)
(***************************************************************************)
MaxChar == 300

\* a u8 operation with the exact result x: <<panicked, value>>
U8Op(x, overflow_checks) ==
    IF x < 0 \/ x > 255
    THEN IF overflow_checks THEN <<TRUE, 0>> ELSE <<FALSE, U8(x)>>
    ELSE <<FALSE, x>>

\* tower_defense.rs 163-170: [panicked, code]
GetHidCode(c, overflow_checks) ==
    LET l == ToAsciiLowercase(c)
        Two(x, d) == \* x - d + Key1 in u8, d and Key1 read left to right
            LET sub == U8Op(x - d, overflow_checks)
                add == U8Op(sub[2] + Key1, overflow_checks)
            IN [panicked |-> sub[1] \/ add[1],
                code |-> IF sub[1] \/ add[1] THEN 0 ELSE add[2]]
    IN IF 97 <= l /\ l <= 122
       THEN [panicked |-> FALSE, code |-> U8(l) - 97 + KeyA]
       ELSE IF 48 <= l /\ l <= 57 THEN Two(U8(c), 49)
       ELSE IF l = SpaceChar THEN [panicked |-> FALSE, code |-> KeySpace]
       ELSE [panicked |-> FALSE, code |-> 0]

KeycodeNew(c, overflow_checks) ==
    [pc |-> "keycode", c |-> c, overflow_checks |-> overflow_checks,
     hid |-> [panicked |-> FALSE, code |-> 0], keycode |-> 0, sent |-> <<>>]

\* PrepAction::KeyDown { key } with key = c (tower_defense.rs 712-717), and
\* char_to_keycode(c) as key_hold asks it (human.rs 43-44)
KeycodeCall ==
    /\ app.pc = "keycode"
    /\ LET hid == GetHidCode(app.c, app.overflow_checks)
       IN app' = [app EXCEPT !.pc = "keycoded", !.hid = hid,
                             !.keycode = CharToKeycode(app.c),
                             !.sent = IF ~hid.panicked /\ hid.code # 0
                                      THEN <<hid.code>> ELSE <<>>]
    /\ UNCHANGED <<scenes, fp, ms, nav, now, dev, thr>>

InitKeycode ==
    /\ scenes = SceneTable(<<>>, AndLogic, OneTextAnchor)
    /\ fp = FpIdle
    /\ ms = MsIdle
    /\ nav = NavOff
    /\ \E c \in 0..MaxChar, overflow_checks \in BOOLEAN :
          app = KeycodeNew(c, overflow_checks)
    /\ now = 0
    /\ dev = DevIdle
    /\ thr = ThrOff

NextKeycode == KeycodeCall

SpecKeycode == InitKeycode /\ [][NextKeycode]_vars

\* C39: get_hid_code(c) and char_to_keycode(c) agree on every character:
\* the same keycode for a-z, A-Z, 0-9 and the space, 0 for every other
\* character, and no u8 operation of either leaves 0..255.
C39_KeycodeMappingsAgree ==
    app.pc = "keycoded" =>
        /\ ~app.hid.panicked
        /\ app.hid.code = app.keycode

(***************************************************************************)
(* SpecMouse: InputDevice::mouse_move (lib.rs 90-110), one iteration of    *)
(* its loop per step, on displacements that need no, one, two and three    *)
(* frames in either direction.  A frame is the six payload bytes send_raw  *)
(* is given.                                                               *)
(***************************************************************************)
MaxDelta == 300
MaxStep == 127              \* max_step, line 94
WheelValues == {-120, -1, 0, 1, 120}
DeltaEdges == {-MaxDelta, -MaxStep - 1, -MaxStep, -1, 0, 1, MaxStep, MaxStep + 1, MaxDelta}

\* (v as i16).to_le_bytes()
I16LeBytes(v) ==
    LET w == v % 65536
    IN <<w % 256, w \div 256>>

\* i16::from_le_bytes
I16FromLe(lo, hi) ==
    LET w == lo + 256 * hi
    IN IF w >= 32768 THEN w - 65536 ELSE w

\* A variant of StepOf that bounds the step from above only.
StepOfUpperOnly(cur) == Min(cur, MaxStep)

\* lines 99-100
StepOf(cur) == IF cur > 0 THEN Min(cur, MaxStep) ELSE Max(cur, -MaxStep)

MouseNew(dx, dy, wheel) ==
    [pc |-> "mouse_move", dx |-> dx, dy |-> dy, wheel |-> wheel,
     cur_dx |-> 0, cur_dy |-> 0, frames |-> <<>>]

\* lines 91-96: the wheel frame and the initial remainder
MouseMoveEnter ==
    /\ app.pc = "mouse_move"
    /\ app' = [app EXCEPT !.pc = "loop", !.cur_dx = app.dx, !.cur_dy = app.dy,
                          !.frames = IF app.wheel # 0
                                     THEN <<<<0, U8(app.wheel), 0, 0, 0, 0>>>>
                                     ELSE <<>>]
    /\ UNCHANGED <<scenes, fp, ms, nav, now, dev, thr>>

\* one iteration of `while cur_dx != 0 || cur_dy != 0`, lines 98-109
MouseMoveIter ==
    /\ app.pc = "loop"
    /\ app.cur_dx # 0 \/ app.cur_dy # 0
    /\ LET step_x == StepOf(app.cur_dx)
           step_y == StepOf(app.cur_dy)
           bx == I16LeBytes(step_x)
           by == I16LeBytes(step_y)
       IN app' = [app EXCEPT !.frames = Append(@, <<0, 0, bx[1], bx[2], by[1], by[2]>>),
                             !.cur_dx = @ - step_x,
                             !.cur_dy = @ - step_y]
    /\ UNCHANGED <<scenes, fp, ms, nav, now, dev, thr>>

\* the loop condition fails: mouse_move returns
MouseMoveReturn ==
    /\ app.pc = "loop"
    /\ app.cur_dx = 0 /\ app.cur_dy = 0
    /\ app' = [app EXCEPT !.pc = "moved"]
    /\ UNCHANGED <<scenes, fp, ms, nav, now, dev, thr>>

InitMouse ==
    /\ scenes = SceneTable(<<>>, AndLogic, OneTextAnchor)
    /\ fp = FpIdle
    /\ ms = MsIdle
    /\ nav = NavOff
    /\ \E dx \in -MaxDelta..MaxDelta, dy \in DeltaEdges, wheel \in WheelValues :
          app = MouseNew(dx, dy, wheel)
    /\ now = 0
    /\ dev = DevIdle
    /\ thr = ThrOff

NextMouse == MouseMoveEnter \/ MouseMoveIter \/ MouseMoveReturn

SpecMouse == InitMouse /\ [][NextMouse]_vars

StepX(frame) == I16FromLe(frame[3], frame[4])
StepY(frame) == I16FromLe(frame[5], frame[6])

RECURSIVE SumX(_)
SumX(frames) == IF frames = <<>> THEN 0 ELSE StepX(Head(frames)) + SumX(Tail(frames))
RECURSIVE SumY(_)
SumY(frames) == IF frames = <<>> THEN 0 ELSE StepY(Head(frames)) + SumY(Tail(frames))

WheelFrames == {k \in 1..Len(app.frames) : app.frames[k][2] # 0}
MoveFrames == {k \in 1..Len(app.frames) : app.frames[k][2] = 0}

\* C40: mouse_move(dx, dy, wheel) terminates (every iteration brings the
\* remainder strictly nearer to 0); every step component of the frames it
\* sent lies in -127..127 and the steps sum to (dx, dy); it sends no move
\* frame when dx = dy = 0, and exactly one wheel frame, carrying wheel, if
\* wheel # 0 and none otherwise.
C40_MouseMoveFrames ==
    /\ [][app.pc = "loop" /\ app'.pc = "loop" =>
            Abs(app'.cur_dx) + Abs(app'.cur_dy) < Abs(app.cur_dx) + Abs(app.cur_dy)]_vars
    /\ [](app.pc \in {"loop", "moved"} =>
            /\ \A k \in 1..Len(app.frames) :
                  /\ StepX(app.frames[k]) \in -MaxStep..MaxStep
                  /\ StepY(app.frames[k]) \in -MaxStep..MaxStep
            /\ SumX(app.frames) + app.cur_dx = app.dx
            /\ SumY(app.frames) + app.cur_dy = app.dy
            /\ \A k \in MoveFrames : StepX(app.frames[k]) # 0 \/ StepY(app.frames[k]) # 0
            /\ Cardinality(WheelFrames) = IF app.wheel # 0 THEN 1 ELSE 0
            /\ \A k \in WheelFrames : app.frames[k] = <<0, U8(app.wheel), 0, 0, 0, 0>>)
    /\ [](app.pc = "moved" =>
            /\ SumX(app.frames) = app.dx /\ SumY(app.frames) = app.dy
            /\ (app.dx = 0 /\ app.dy = 0) => MoveFrames = {})

\* a move of (-300, 128) with the wheel turned: one wheel frame and three
\* move frames, the last with a step of -46 on x and 0 on y
C40_Witness ==
    /\ app.pc = "moved" /\ app.dx = -MaxDelta /\ app.dy = MaxStep + 1 /\ app.wheel = -120
    /\ Len(app.frames) = 4 /\ WheelFrames = {1}
    /\ StepX(app.frames[4]) = 2 * MaxStep - MaxDelta /\ StepY(app.frames[4]) = 0
    /\ StepY(app.frames[3]) = 1

====
